---- MODULE Spec2Model ----
(***************************************************************************)
(* Model of django-explicit-behave's step-table resolution engine          *)
(* (explicit_behave/utils.py) and of the database steps that call it       *)
(* (explicit_behave/db.py).                                                *)
(*                                                                         *)
(* Texts (table cells, rendered values) are sequences of tokens: the       *)
(* punctuation "[", "]", ",", "-", "\n" and words.  Whitespace between     *)
(* tokens is not represented.  A field path such as student__nk is the     *)
(* sequence of its segments, <<"student", "nk">>.                          *)
(***************************************************************************)
EXTENDS Integers, Sequences, FiniteSets, TLC

\* ------------------------------------------------------------------ bounds
MaxRows == 2

\* ------------------------------------------------------------ small helpers
Range(f) == {f[x] : x \in DOMAIN f}

RECURSIVE SeqsUpTo(_, _)
SeqsUpTo(S, n) ==
    IF n = 0 THEN {<<>>}
    ELSE LET shorter == SeqsUpTo(S, n - 1)
         IN  shorter \cup {Append(s, x) : s \in {t \in shorter : Len(t) = n - 1}, x \in S}

\* Python dict.get(key, default)
DictGet(d, k, default) == IF k \in DOMAIN d THEN d[k] ELSE default

\* Python dict item assignment d[k] = v
DictSet(d, k, v) == [x \in (DOMAIN d) \cup {k} |-> IF x = k THEN v ELSE d[x]]

\* Python dict.update(other)
DictUpdate(d, other) ==
    [x \in (DOMAIN d) \cup (DOMAIN other) |-> IF x \in DOMAIN other THEN other[x] ELSE d[x]]

EmptyDict == [x \in {} |-> 0]

\* ------------------------------------------------------- strings and digits
\* str(n) for the identifiers of the model, and str.isdigit on a whole text
DigitStr == <<"0", "1", "2", "3", "4", "5", "6", "7", "8", "9">>
str(n) == DigitStr[n + 1]
int(w) == CHOOSE n \in 0..9 : DigitStr[n + 1] = w
WordIsDigit(w) == \E n \in 0..9 : DigitStr[n + 1] = w
isdigit(text) == Len(text) = 1 /\ WordIsDigit(text[1])
startswith(text, tok) == Len(text) > 0 /\ text[1] = tok
endswith(text, tok) == Len(text) > 0 /\ text[Len(text)] = tok

Punctuation == {"[", "]", ",", "-", "\n"}

\* --------------------------------------------------------------------- YAML
\* A YAML value: a string or integer scalar, or a sequence of values.
YScalar(w) == [kind |-> IF WordIsDigit(w) THEN "int" ELSE "str", w |-> w, items |-> <<>>]
YSeq(items) == [kind |-> "seq", w |-> "", items |-> items]
YFail == [ok |-> FALSE, val |-> YSeq(<<>>), next |-> 0]
YOk(v, n) == [ok |-> TRUE, val |-> v, next |-> n]

RECURSIVE ParseFlowNode(_, _), ParseFlowSeq(_, _, _)
\* a node in flow context: a block entry "-" or a line break cannot start it
ParseFlowNode(toks, i) ==
    IF i > Len(toks) THEN YFail
    ELSE IF toks[i] = "[" THEN ParseFlowSeq(toks, i + 1, <<>>)
    ELSE IF toks[i] \in Punctuation THEN YFail
    ELSE YOk(YScalar(toks[i]), i + 1)

ParseFlowSeq(toks, i, acc) ==
    IF i > Len(toks) THEN YFail
    ELSE IF toks[i] = "]" THEN YOk(YSeq(acc), i + 1)
    ELSE LET n == ParseFlowNode(toks, i)
         IN  IF ~n.ok \/ n.next > Len(toks) THEN YFail
             ELSE IF toks[n.next] = "," THEN ParseFlowSeq(toks, n.next + 1, Append(acc, n.val))
             ELSE IF toks[n.next] = "]" THEN YOk(YSeq(Append(acc, n.val)), n.next + 1)
             ELSE YFail

\* yaml.load(value, Loader=yaml.FullLoader) of a text that starts with "["
yaml_load(text) ==
    LET n == ParseFlowNode(text, 1)
    IN  IF n.ok /\ n.next = Len(text) + 1 THEN n ELSE YFail

\* yaml.dump(list(words)).strip(): no default_flow_style is given, so the
\* sequence is written in block style, one "- item" per line
RECURSIVE yaml_dump(_)
yaml_dump(words) ==
    IF Len(words) = 0 THEN <<"[", "]">>
    ELSE IF Len(words) = 1 THEN <<"-", words[1]>>
    ELSE <<"-", words[1], "\n">> \o yaml_dump(Tail(words))

\* the words of a YAML sequence of scalars, as the *args of a lookup
YArgs(v) == [i \in 1..Len(v.items) |-> v.items[i].w]
YIsScalarSeq(v) == v.kind = "seq" /\ \A i \in 1..Len(v.items) : v.items[i].kind # "seq"

\* ------------------------------------------------------------------- errors
\* An exception: its type, the entity type it belongs to (DoesNotExist), and
\* whether its message names the looked-up key (and which key).
NoKey == YSeq(<<>>)
NoErr == [type |-> "", model |-> "", named |-> FALSE, key |-> NoKey]
Raise(type) == [type |-> type, model |-> "", named |-> FALSE, key |-> NoKey]
DoesNotExist(model) == [type |-> "DoesNotExist", model |-> model, named |-> FALSE, key |-> NoKey]
DoesNotExistMatching(model, nk_args) ==
    [type |-> "DoesNotExist", model |-> model, named |-> TRUE, key |-> nk_args]

\* ------------------------------------------------------------------- schema
\* Field descriptors of the entity types.  related_model is "" (None) for a
\* field that is not a ForeignKey; a GenericForeignKey has no related_model
\* and names its two backing fields.
Scalar(kind, name) ==
    [kind |-> kind, name |-> name, attname |-> name, related_model |-> "",
     ct_field |-> "", fk_field |-> ""]
FK(name, column, target) ==
    [kind |-> "ForeignKey", name |-> name, attname |-> column, related_model |-> target,
     ct_field |-> "", fk_field |-> ""]
GFK(name, ct, fk) ==
    [kind |-> "GenericForeignKey", name |-> name, attname |-> name, related_model |-> "",
     ct_field |-> ct, fk_field |-> fk]
NoField == Scalar("", "")

Models == {"Order", "Customer", "Tag", "Plain", "ContentType", "Sample", "Keyed"}

\* Model._meta.get_fields(): the fields of each entity type, in declaration order
MetaFields(model) ==
    CASE model = "Order" ->
            << Scalar("AutoField", "id"), Scalar("CharField", "nk"),
               FK("customer", "customer_id", "Customer"), FK("tag", "tag_id", "Tag"),
               FK("plain", "plain_id", "Plain"),
               FK("content_type", "content_type_id", "ContentType"),
               Scalar("IntegerField", "object_id"),
               GFK("target", "content_type", "object_id") >>
      [] model = "Customer" -> << Scalar("AutoField", "id"), Scalar("CharField", "nk") >>
      [] model = "Tag" -> << Scalar("AutoField", "id"), Scalar("CharField", "nk") >>
      [] model = "Plain" -> << Scalar("AutoField", "id"), Scalar("CharField", "name") >>
      [] model = "ContentType" ->
            << Scalar("AutoField", "id"), Scalar("CharField", "app_label"),
               Scalar("CharField", "model") >>
      \* a model whose primary key is not named id
      [] model = "Keyed" -> << Scalar("CharField", "code"), Scalar("CharField", "name") >>
      [] model = "Sample" ->
            << Scalar("AutoField", "id"), Scalar("IntegerField", "count"),
               Scalar("FloatField", "ratio"), Scalar("BooleanField", "active"),
               Scalar("DateField", "day"), Scalar("DateTimeField", "moment"),
               Scalar("JSONField", "payload"), Scalar("CharField", "name"),
               Scalar("TextField", "notes"), FK("order", "order_id", "Order") >>
      [] OTHER -> << >>

\* Options.get_field(name) over the fields fs: by name or by column name
FieldNamed(fs, name) ==
    IF \A i \in 1..Len(fs) : fs[i].name # name /\ fs[i].attname # name
    THEN [err |-> Raise("FieldDoesNotExist"), field |-> NoField]
    ELSE [err |-> NoErr,
          field |-> fs[CHOOSE i \in 1..Len(fs) : fs[i].name = name \/ fs[i].attname = name]]

\* Model._meta.get_field(name)
MetaGetField(model, name) == FieldNamed(MetaFields(model), name)

\* [x.name for x in Model._meta.get_fields()]
FieldNames(model) == {f.name : f \in Range(MetaFields(model))}

\* the managers that define get_by_natural_key, and the arity of the key
HasGetByNaturalKey(model) == model \in {"Customer", "ContentType"}
NkArity(model) == IF model = "ContentType" THEN 2 ELSE 1

\* ContentType.model_class(): the entity type a content type stands for
model_class(ct) ==
    CASE ct.nk = <<"shop", "customer">> -> "Customer"
      [] ct.nk = <<"shop", "tag">> -> "Tag"
      [] ct.nk = <<"contenttypes", "contenttype">> -> "ContentType"
      [] OTHER -> ""

RECURSIVE get_field(_, _)
\* utils.py:40-43: the field itself when the path ends, else the path goes on
\* from Field.related_model (None has no _meta: AttributeError)
FollowRelated(Field, path) ==
    IF Field.err # NoErr \/ Len(path) = 1 THEN Field
    ELSE IF Field.field.related_model = ""
         THEN [err |-> Raise("AttributeError"), field |-> NoField]
    ELSE get_field(Field.field.related_model, Tail(path))

\* utils.py:30-43
get_field(model, path) == FollowRelated(MetaGetField(model, Head(path)), path)

\* -------------------------------------------------------------------- store
\* An entity: its type, primary key and natural key.  The store maps each
\* referenced entity type to the set of its rows.
Entity(m, id, nk) == [m |-> m, id |-> id, nk |-> nk]
Customer1 == Entity("Customer", 1, <<"C1">>)
Customer2 == Entity("Customer", 2, <<"C2">>)
Tag1 == Entity("Tag", 1, <<"T1">>)
Plain1 == Entity("Plain", 1, <<>>)
CtCustomer == Entity("ContentType", 1, <<"shop", "customer">>)
CtTag == Entity("ContentType", 2, <<"shop", "tag">>)
CtContentType == Entity("ContentType", 3, <<"contenttypes", "contenttype">>)

\* the lookup answered from the rows a first step saw, whatever the store holds now
get_by_natural_key_remembered(db, model, args) ==
    LET hits == {e \in {Customer1, Customer2, Tag1, Plain1, CtCustomer, CtTag, CtContentType} :
                    e.m = model /\ e.nk = args}
    IN  IF Len(args) # NkArity(model) THEN [err |-> Raise("TypeError"), obj |-> Entity("", 0, <<>>)]
        ELSE IF hits = {} THEN [err |-> DoesNotExist(model), obj |-> Entity("", 0, <<>>)]
        ELSE [err |-> NoErr, obj |-> CHOOSE e \in hits : TRUE]

\* Manager.get_by_natural_key(*args)
get_by_natural_key(db, model, args) ==
    LET hits == {e \in db[model] : e.nk = args}
    IN  IF Len(args) # NkArity(model) THEN [err |-> Raise("TypeError"), obj |-> Entity("", 0, <<>>)]
        ELSE IF hits = {} THEN [err |-> DoesNotExist(model), obj |-> Entity("", 0, <<>>)]
        ELSE [err |-> NoErr, obj |-> CHOOSE e \in hits : TRUE]

\* Manager.get(nk=value)
get_by_nk_field(db, model, value) ==
    LET hits == {e \in db[model] : e.nk = <<value>>}
    IN  IF hits = {} THEN [err |-> DoesNotExist(model), obj |-> Entity("", 0, <<>>)]
        ELSE [err |-> NoErr, obj |-> CHOOSE e \in hits : TRUE]

\* Manager.filter(pk__in=keys)
filter_pk_in(db, model, keys) == {e \in db[model] : str(e.id) \in keys}

\* ------------------------------------------------------------------- values
\* A python value of a resolved row: None, an entity, an integer or a text.
None == [t |-> "None", m |-> "", id |-> 0, s |-> <<>>]
Obj(e) == [t |-> "obj", m |-> e.m, id |-> e.id, s |-> e.nk]
IntV(n) == [t |-> "int", m |-> "", id |-> n, s |-> <<>>]
StrV(text) == [t |-> "str", m |-> "", id |-> 0, s |-> text]
\* the other scalars: a bool, a float (held in tenths), a date and a datetime
\* (held as their ISO text) and a dict (held as its JSON text)
BoolV(b) == [t |-> "bool", m |-> "", id |-> IF b THEN 1 ELSE 0, s |-> <<>>]
FloatV(tenths) == [t |-> "float", m |-> "", id |-> tenths, s |-> <<>>]
DateV(w) == [t |-> "date", m |-> "", id |-> 0, s |-> <<w>>]
DateTimeV(w) == [t |-> "datetime", m |-> "", id |-> 0, s |-> <<w>>]
DictV(w) == [t |-> "dict", m |-> "", id |-> 0, s |-> <<w>>]

\* ------------------------------------------------------- parse_step_objects
\* A step table: its headings (field paths) and its rows (one cell per heading)
Table(headings, rows) == [headings |-> headings, rows |-> rows]
IndexOf(seq, x) == CHOOSE i \in 1..Len(seq) : seq[i] = x
\* row.as_dict()[heading], row.get(heading)
RowGet(table, r, heading) == table.rows[r][IndexOf(table.headings, heading)]

\* An entry of obj_by_nk_by_field[field]: the parsed key, then (once resolved)
\* either one value or the ReplaceField group of a generic foreign key
Pending(nk_args) == [args |-> nk_args, replace |-> FALSE, val |-> None, group |-> EmptyDict]
Resolved(nk_args, value) == [args |-> nk_args, replace |-> FALSE, val |-> value, group |-> EmptyDict]
ReplaceField(nk_args, group) == [args |-> nk_args, replace |-> TRUE, val |-> None, group |-> group]

\* An ordered dict: the keys in insertion order and the mapping
OrderedDict == [order |-> <<>>, map |-> EmptyDict]
\* a list of (key, value) pairs in place of the dict: nothing is deduplicated
OrderedSetNoDedup(d, k, v) ==
    [order |-> Append(d.order, k), map |-> DictSet(d.map, k, v)]

OrderedSet(d, k, v) ==
    [order |-> IF k \in DOMAIN d.map THEN d.order ELSE Append(d.order, k),
     map |-> DictSet(d.map, k, v)]

\* The locals of one parse_step_objects call, with the counts of the
\* queries it has issued per field and the rows it has yielded
Frame0 ==
    [err |-> NoErr,
     nk_fields |-> <<>>, id_fields |-> <<>>,
     obj_by_nk_by_field |-> EmptyDict, obj_by_id_by_field |-> EmptyDict,
     fk_model_by_field |-> EmptyDict, generic_foreign_key_fields |-> {},
     nk_lookups |-> EmptyDict, id_queries |-> EmptyDict,
     rows |-> <<>>]

AppendNew(seq, x) == IF x \in Range(seq) THEN seq ELSE Append(seq, x)

\* utils.py:178-188: the model a heading's field refers to, "" if none
ForeignModelOf(Model, field) ==
    IF field.kind = "GenericForeignKey"
    THEN MetaGetField(Model, field.ct_field).field.related_model
    ELSE field.related_model

\* utils.py:183: generic_foreign_key_fields.add(field_name)
TagGeneric(fr, field_name, field) ==
    IF field.kind = "GenericForeignKey"
    THEN [fr EXCEPT !.generic_foreign_key_fields = @ \cup {field_name}]
    ELSE fr

\* utils.py:190-194: a foreign key that is not generic can be referenced by id
TagIdField(fr, field_name, field, ForeignModel) ==
    IF ForeignModel # "" /\ field.kind # "GenericForeignKey"
    THEN [fr EXCEPT !.id_fields = AppendNew(@, field_name),
                    !.obj_by_id_by_field = DictSet(@, field_name, EmptyDict),
                    !.id_queries = DictSet(@, field_name, 0),
                    !.fk_model_by_field = DictSet(@, field_name, ForeignModel)]
    ELSE fr

\* utils.py:196-200: a field whose model can be searched by natural key
TagNkField(fr, field_name, ForeignModel) ==
    IF ForeignModel # ""
       /\ (HasGetByNaturalKey(ForeignModel) \/ "nk" \in FieldNames(ForeignModel))
    THEN [fr EXCEPT !.nk_fields = AppendNew(@, field_name),
                    !.obj_by_nk_by_field = DictSet(@, field_name, OrderedDict),
                    !.nk_lookups = DictSet(@, field_name, 0),
                    !.fk_model_by_field = DictSet(@, field_name, ForeignModel)]
    ELSE fr

\* utils.py:178-200, the field f found for the heading
ExamineField(fr, Model, field_name, f, ForeignModel) ==
    TagNkField(TagIdField(TagGeneric(fr, field_name, f), field_name, f, ForeignModel),
               field_name, ForeignModel)

\* utils.py:177: get_field raises, or the field is examined
ExamineFound(fr, Model, field_name, found) ==
    IF found.err # NoErr THEN [fr EXCEPT !.err = found.err]
    ELSE ExamineField(fr, Model, field_name, found.field, ForeignModelOf(Model, found.field))

\* utils.py:176-200, one heading
ExamineHeading(fr, Model, field_name) ==
    ExamineFound(fr, Model, field_name, get_field(Model, field_name))

RECURSIVE ExamineHeadings(_, _, _, _)
ExamineHeadings(fr, Model, headings, i) ==
    IF fr.err # NoErr \/ i > Len(headings) THEN fr
    ELSE ExamineHeadings(ExamineHeading(fr, Model, headings[i]), Model, headings, i + 1)

\* the scan without the "specify a natural key" branch
CollectNkLenient(fr, lookup_field, value) ==
    IF value = <<>> THEN fr
    ELSE IF startswith(value, "[") /\ endswith(value, "]")
         THEN LET y == yaml_load(value)
              IN  IF ~y.ok THEN [fr EXCEPT !.err = Raise("YAMLError")]
                  ELSE [fr EXCEPT !.obj_by_nk_by_field[lookup_field] =
                                      OrderedSet(@, value, Pending(y.val))]
    ELSE fr

\* utils.py:206-217, one cell of a natural-key-capable field
CollectNk(fr, lookup_field, value) ==
    IF value = <<>> THEN fr
    ELSE IF startswith(value, "[") /\ endswith(value, "]")
         THEN LET y == yaml_load(value)
              IN  IF ~y.ok THEN [fr EXCEPT !.err = Raise("YAMLError")]
                  ELSE [fr EXCEPT !.obj_by_nk_by_field[lookup_field] =
                                      OrderedSet(@, value, Pending(y.val))]
    ELSE IF ~isdigit(value) THEN [fr EXCEPT !.err = Raise("ValueError")]
    ELSE fr

\* utils.py:203-217: every row, every natural-key-capable field
RECURSIVE CollectNks(_, _, _, _)
CollectNks(fr, table, r, k) ==
    IF fr.err # NoErr \/ r > Len(table.rows) THEN fr
    ELSE IF k > Len(fr.nk_fields) THEN CollectNks(fr, table, r + 1, 1)
    ELSE CollectNks(CollectNk(fr, fr.nk_fields[k], RowGet(table, r, fr.nk_fields[k])),
                    table, r, k + 1)

\* utils.py:219-222: the loop runs after the row loop, on the item the row
\* loop left behind (the last row); with no row, item is unbound
RECURSIVE CollectIds(_, _, _)
CollectIds(fr, table, k) ==
    IF fr.err # NoErr \/ k > Len(fr.id_fields) THEN fr
    ELSE IF Len(table.rows) = 0 THEN [fr EXCEPT !.err = Raise("NameError")]
    ELSE LET lookup_field == fr.id_fields[k]
             value == RowGet(table, Len(table.rows), lookup_field)
         IN  CollectIds(IF isdigit(value)
                        THEN [fr EXCEPT !.obj_by_id_by_field[lookup_field] = DictSet(@, value, None)]
                        ELSE fr,
                        table, k + 1)

\* utils.py:225-227: one filter(pk__in=...) query per identifier field
RECURSIVE FetchIds(_, _, _, _)
FetchIds(fr, db, Model, k) ==
    IF fr.err # NoErr \/ k > Len(fr.id_fields) THEN fr
    ELSE LET lookup_field == fr.id_fields[k]
             value_map == fr.obj_by_id_by_field[lookup_field]
             related == get_field(Model, lookup_field).field.related_model
             found == filter_pk_in(db, related, {key[1] : key \in DOMAIN value_map})
             filled == [key \in (DOMAIN value_map) \cup {<<str(e.id)>> : e \in found} |->
                          IF \E e \in found : <<str(e.id)>> = key
                          THEN Obj(CHOOSE e \in found : <<str(e.id)>> = key)
                          ELSE value_map[key]]
         IN  FetchIds([fr EXCEPT !.obj_by_id_by_field[lookup_field] = filled,
                                 !.id_queries[lookup_field] = @ + 1],
                      db, Model, k + 1)

\* the two backing fields of the generic foreign key exchanged
GenericGroupSwapped(model_field, field_name, content_type, obj_id, obj) ==
    DictSet(DictSet(DictSet(EmptyDict, <<model_field.fk_field>>, content_type),
                    <<model_field.ct_field>>, obj_id),
            field_name, obj)

\* utils.py:258-262: the fields a generic foreign key expands to
GenericGroup(model_field, field_name, content_type, obj_id, obj) ==
    DictSet(DictSet(DictSet(EmptyDict, <<model_field.ct_field>>, content_type),
                    <<model_field.fk_field>>, obj_id),
            field_name, obj)

\* utils.py:235-262: a generic foreign key.  The type is looked up first and
\* the instance among the rows of content_type.model_class(); only the
\* DoesNotExist of the content type's own entity type is caught.
ResolveGeneric(fr, db, Model, field_name, original, raise_exceptions) ==
    LET nk_args == fr.obj_by_nk_by_field[field_name].map[original].args
        CtModel == fr.fk_model_by_field[field_name]
        wellFormed == /\ nk_args.kind = "seq" /\ Len(nk_args.items) >= 2
                      /\ YIsScalarSeq(nk_args.items[1])
        ct == get_by_natural_key(db, CtModel, YArgs(nk_args.items[1]))
        second == nk_args.items[2]
        nk_elements == IF second.kind = "str" THEN <<second.w>> ELSE YArgs(second)
        Target == model_class(ct.obj)
        noManager == Target = "" \/ ~HasGetByNaturalKey(Target)
        inst == get_by_natural_key(db, Target, nk_elements)
        \* the exception the try block ends with, if any, and the queries issued
        tried ==
            IF ~wellFormed THEN [err |-> Raise("TypeError"), queries |-> 0]
            ELSE IF ct.err # NoErr
                 THEN [err |-> ct.err, queries |-> IF ct.err.type = "TypeError" THEN 0 ELSE 1]
            ELSE IF second.kind = "int" \/ (second.kind = "seq" /\ ~YIsScalarSeq(second))
                 THEN [err |-> Raise("TypeError"), queries |-> 1]
            ELSE IF noManager THEN [err |-> Raise("AttributeError"), queries |-> 1]
            ELSE IF inst.err # NoErr
                 THEN [err |-> inst.err, queries |-> IF inst.err.type = "TypeError" THEN 1 ELSE 2]
            ELSE [err |-> NoErr, queries |-> 2]
        caught == tried.err.type = "DoesNotExist" /\ tried.err.model = CtModel
        model_field == get_field(Model, field_name).field
        group(content_type, obj_id, obj) ==
            GenericGroup(model_field, field_name, content_type, obj_id, obj)
        counted == [fr EXCEPT !.nk_lookups[field_name] = @ + tried.queries]
    IN  IF tried.err = NoErr
        THEN [counted EXCEPT !.obj_by_nk_by_field[field_name].map[original] =
                 ReplaceField(nk_args, group(Obj(ct.obj), IntV(inst.obj.id), Obj(inst.obj)))]
        ELSE IF caught /\ ~raise_exceptions
        THEN [counted EXCEPT !.obj_by_nk_by_field[field_name].map[original] =
                 ReplaceField(nk_args, group(None, None, None))]
        ELSE [counted EXCEPT !.err = tried.err]

\* utils.py:264-274: a simple foreign key.  A manager without
\* get_by_natural_key raises AttributeError and the handler queries the nk
\* field instead, outside the try block.
ResolveSimple(fr, db, field_name, original, raise_exceptions) ==
    LET nk_args == fr.obj_by_nk_by_field[field_name].map[original].args
        ForeignModel == fr.fk_model_by_field[field_name]
        byKey == get_by_natural_key(db, ForeignModel, YArgs(nk_args))
        byNk == get_by_nk_field(db, ForeignModel, nk_args.items[1].w)
        store(value) == [fr EXCEPT !.obj_by_nk_by_field[field_name].map[original] =
                                       Resolved(nk_args, value),
                                   !.nk_lookups[field_name] = @ + 1]
        fail(e) == [fr EXCEPT !.err = e, !.nk_lookups[field_name] = @ + 1]
    IN  IF HasGetByNaturalKey(ForeignModel)
        THEN IF ~YIsScalarSeq(nk_args) \/ byKey.err.type = "TypeError"
             THEN [fr EXCEPT !.err = Raise("TypeError")]
             ELSE IF byKey.err.type = "DoesNotExist"
             THEN IF raise_exceptions
                  THEN fail(DoesNotExistMatching(ForeignModel, nk_args))
                  ELSE store(None)
             ELSE store(Obj(byKey.obj))
        ELSE IF nk_args.kind # "seq" \/ Len(nk_args.items) = 0
             THEN [fr EXCEPT !.err = Raise("IndexError")]
             ELSE IF byNk.err # NoErr THEN fail(byNk.err)
             ELSE store(Obj(byNk.obj))

\* utils.py:232-274, one entry of one field
ResolveNk(fr, db, Model, field_name, original, raise_exceptions) ==
    IF field_name \in fr.generic_foreign_key_fields
    THEN ResolveGeneric(fr, db, Model, field_name, original, raise_exceptions)
    ELSE ResolveSimple(fr, db, field_name, original, raise_exceptions)

\* utils.py:230-274: every field, every key collected for it
RECURSIVE ResolveNks(_, _, _, _, _, _)
ResolveNks(fr, db, Model, raise_exceptions, k, j) ==
    IF fr.err # NoErr \/ k > Len(fr.nk_fields) THEN fr
    ELSE LET field_name == fr.nk_fields[k]
             items == fr.obj_by_nk_by_field[field_name].order
         IN  IF j > Len(items) THEN ResolveNks(fr, db, Model, raise_exceptions, k + 1, 1)
             ELSE ResolveNks(ResolveNk(fr, db, Model, field_name, items[j], raise_exceptions),
                             db, Model, raise_exceptions, k, j + 1)

\* ------------------------------------------------------ get_to_python_field
\* only the two double quotes stand for the empty string
EmptyStringLiteralsDoubleOnly == {StrV(<<"\"\"">>)}

\* utils.py:331: value == '""' or value == "''"
EmptyStringLiterals == {StrV(<<"\"\"">>), StrV(<<"''">>)}

\* the words the conversions below tell apart
FloatWords == {"1.5", "0.5"}
Tenths(w) == IF w = "1.5" THEN 15 ELSE 5
TrueWords == {"t", "True", "1"}
FalseWords == {"f", "False", "0"}
DateWords == {"2020-01-02"}
DateTimeWords == {"2020-01-02T03:04:05"}
Midnight(w) == "2020-01-02T00:00:00"
DatePart(w) == "2020-01-02"

\* A conversion's result: the value, or ValidationError (ok FALSE)
Valid(v) == [ok |-> TRUE, val |-> v]
Invalid == [ok |-> FALSE, val |-> None]

\* only a text is converted
int_to_python_text_only(value) ==
    IF value.t = "str" /\ isdigit(value.s) THEN Valid(IntV(int(value.s[1]))) ELSE Invalid

\* IntegerField.to_python, AutoField.to_python: None, else int(value)
int_to_python(value) ==
    CASE value.t \in {"None", "int"} -> Valid(value)
      [] value.t = "str" -> IF isdigit(value.s) THEN Valid(IntV(int(value.s[1]))) ELSE Invalid
      [] value.t = "bool" -> Valid(IntV(value.id))
      [] value.t = "float" -> Valid(IntV(value.id \div 10))
      [] OTHER -> Invalid

\* FloatField.to_python: None, else float(value)
float_to_python(value) ==
    CASE value.t \in {"None", "float"} -> Valid(value)
      [] value.t \in {"int", "bool"} -> Valid(FloatV(10 * value.id))
      [] value.t = "str" ->
            IF isdigit(value.s) THEN Valid(FloatV(10 * int(value.s[1])))
            ELSE IF Len(value.s) = 1 /\ value.s[1] \in FloatWords
                 THEN Valid(FloatV(Tenths(value.s[1])))
            ELSE Invalid
      [] OTHER -> Invalid

\* BooleanField.to_python (null=False): True, False, 1, 0 and the six words
bool_to_python(value) ==
    CASE value.t \in {"bool", "int"} /\ value.id \in {0, 1} -> Valid(BoolV(value.id = 1))
      [] value.t = "float" /\ value.id \in {0, 10} -> Valid(BoolV(value.id = 10))
      [] value.t = "str" /\ Len(value.s) = 1 /\ value.s[1] \in TrueWords -> Valid(BoolV(TRUE))
      [] value.t = "str" /\ Len(value.s) = 1 /\ value.s[1] \in FalseWords -> Valid(BoolV(FALSE))
      [] OTHER -> Invalid

\* DateField.to_python: None, a date, the date of a datetime, else parse_date
date_to_python(value) ==
    CASE value.t \in {"None", "date"} -> Valid(value)
      [] value.t = "datetime" -> Valid(DateV(DatePart(value.s[1])))
      [] value.t = "str" /\ Len(value.s) = 1 /\ value.s[1] \in DateWords -> Valid(DateV(value.s[1]))
      [] OTHER -> Invalid

\* DateTimeField.to_python: None, a datetime, a date at midnight, else
\* parse_datetime and then parse_date
datetime_to_python(value) ==
    CASE value.t \in {"None", "datetime"} -> Valid(value)
      [] value.t = "date" -> Valid(DateTimeV(Midnight(value.s[1])))
      [] value.t = "str" /\ Len(value.s) = 1 /\ value.s[1] \in DateTimeWords ->
            Valid(DateTimeV(value.s[1]))
      [] value.t = "str" /\ Len(value.s) = 1 /\ value.s[1] \in DateWords ->
            Valid(DateTimeV(Midnight(value.s[1])))
      [] OTHER -> Invalid

\* CharField.to_python, TextField.to_python: a str or None as it is, else str(value)
text_to_python(value) ==
    CASE value.t \in {"None", "str"} -> Valid(value)
      [] value.t = "int" /\ value.id \in 0..9 -> Valid(StrV(<<str(value.id)>>))
      [] value.t = "bool" -> Valid(StrV(<<IF value.id = 1 THEN "True" ELSE "False">>))

\* Field.to_python(value) of the scalar kinds.  The value is a cell text, None
\* or a value of a scalar kind.  ForeignKey.to_python is Field.to_python: the
\* value as it is.
to_python(kind, value) ==
    CASE kind \in {"AutoField", "IntegerField"} -> int_to_python(value)
      [] kind = "FloatField" -> float_to_python(value)
      [] kind = "BooleanField" -> bool_to_python(value)
      [] kind = "DateField" -> date_to_python(value)
      [] kind = "DateTimeField" -> datetime_to_python(value)
      [] kind \in {"CharField", "TextField"} -> text_to_python(value)
      [] kind = "ForeignKey" -> Valid(value)

\* json.loads(value): TypeError unless value is a str; JSONDecodeError unless
\* the text is a JSON document (of the one-word documents: a digit, null, true,
\* false, {})
json_loads(value) ==
    IF value.t # "str" THEN [err |-> Raise("TypeError"), val |-> None]
    ELSE IF Len(value.s) # 1 THEN [err |-> Raise("JSONDecodeError"), val |-> None]
    ELSE CASE WordIsDigit(value.s[1]) -> [err |-> NoErr, val |-> IntV(int(value.s[1]))]
           [] value.s[1] = "null" -> [err |-> NoErr, val |-> None]
           [] value.s[1] = "true" -> [err |-> NoErr, val |-> BoolV(TRUE)]
           [] value.s[1] = "false" -> [err |-> NoErr, val |-> BoolV(FALSE)]
           [] value.s[1] = "{}" -> [err |-> NoErr, val |-> DictV("{}")]
           [] OTHER -> [err |-> Raise("JSONDecodeError"), val |-> None]

\* the ValidationError let through
ConvertedOrRaise(c) ==
    [err |-> IF c.ok THEN NoErr ELSE Raise("ValidationError"), val |-> c.val]

\* utils.py:337-340: field.to_python(value), None on ValidationError
Converted(c) == [err |-> NoErr, val |-> IF c.ok THEN c.val ELSE None]

\* the field left as it is: ForeignKey.to_python returns the value unchanged
ConvertingFieldItself(field) == field

\* utils.py:326: a ForeignKey converts with the primary key of its target
ConvertingField(field) ==
    IF field.kind = "ForeignKey" THEN MetaGetField(field.related_model, "id").field
    ELSE field

\* utils.py:322-340, the field found for the path
ToPythonOf(field, value) ==
    IF field.kind = "ForeignKey"
    THEN IF value = StrV(<<>>) THEN [err |-> NoErr, val |-> None]
         ELSE Converted(to_python(ConvertingField(field).kind, value))
    ELSE IF field.kind \in {"TextField", "CharField"}
         THEN IF value = StrV(<<>>) THEN [err |-> NoErr, val |-> None]
              ELSE IF value \in EmptyStringLiterals THEN [err |-> NoErr, val |-> StrV(<<>>)]
              ELSE Converted(to_python(field.kind, value))
    ELSE IF field.kind = "JSONField" THEN json_loads(value)
    ELSE IF field.kind = "GenericForeignKey"
         THEN [err |-> Raise("AttributeError"), val |-> None]
    ELSE Converted(to_python(field.kind, value))

\* utils.py:321: get_field raises, or the field converts the value
ToPythonFound(found, value) ==
    IF found.err # NoErr THEN [err |-> found.err, val |-> None]
    ELSE ToPythonOf(found.field, value)

\* utils.py:312-340
get_to_python_field(model, field_path, value) ==
    ToPythonFound(get_field(model, field_path), value)

\* ------------------------------------------------------- row materialization
\* the identifier branch falling back to the cell text when nothing was fetched
IdValueOrRawText(id_map, str_value) ==
    IF id_map[str_value] = None THEN StrV(str_value) ELSE id_map[str_value]

\* utils.py:287: obj_by_id_by_field[field].get(str_value, str_value)
IdValue(id_map, str_value) ==
    DictGet(id_map, str_value, StrV(str_value))

\* utils.py:285, 295-300: obj_by_nk_by_field[field].get(str_value, str_value),
\* a ReplaceField updating the row, any other value set under the field
PlaceNkValue(value_by_field, field, entry) ==
    [err |-> NoErr,
     row |-> IF entry.replace THEN DictUpdate(value_by_field, entry.group)
             ELSE DictSet(value_by_field, field, entry.val)]

\* utils.py:292, 300: the converted value, unless the conversion raised
PlaceConverted(value_by_field, field, coerced) ==
    [err |-> coerced.err, row |-> DictSet(value_by_field, field, coerced.val)]

\* utils.py:282-300, with the two lookup dicts of the cell's field
PlaceValue(Model, value_by_field, field, str_value, nk_map, id_map) ==
    IF str_value \in DOMAIN nk_map
    THEN PlaceNkValue(value_by_field, field,
                      DictGet(nk_map, str_value, Resolved(NoKey, StrV(str_value))))
    ELSE IF str_value \in DOMAIN id_map
    THEN [err |-> NoErr,
          row |-> DictSet(value_by_field, <<get_field(Model, field).field.name>>,
                          IdValue(id_map, str_value))]
    ELSE PlaceConverted(value_by_field, field, get_to_python_field(Model, field, StrV(str_value)))

\* utils.py:280-300, one cell of one row
MaterializeCell(fr, Model, value_by_field, field, str_value) ==
    PlaceValue(Model, value_by_field, field, str_value,
               DictGet(fr.obj_by_nk_by_field, field, OrderedDict).map,
               DictGet(fr.obj_by_id_by_field, field, EmptyDict))

\* utils.py:279-300: the cells of row r from heading i on; acc is the dict so far
RECURSIVE MaterializeRow(_, _, _, _, _, _)
MaterializeRow(fr, Model, table, r, i, acc) ==
    IF acc.err # NoErr \/ i > Len(table.headings) THEN acc
    ELSE MaterializeRow(fr, Model, table, r, i + 1,
                        MaterializeCell(fr, Model, acc.row, table.headings[i], table.rows[r][i]))

\* utils.py:301: yield value_by_field, unless the row raised
YieldRow(fr, row) ==
    IF row.err # NoErr THEN [fr EXCEPT !.err = row.err]
    ELSE [fr EXCEPT !.rows = Append(@, row.row)]

\* utils.py:276-301: the rows are yielded one by one, in table order
RECURSIVE MaterializeRows(_, _, _, _)
MaterializeRows(fr, Model, table, r) ==
    IF fr.err # NoErr \/ r > Len(table.rows) THEN fr
    ELSE MaterializeRows(YieldRow(fr, MaterializeRow(fr, Model, table, r, 1,
                                                     [err |-> NoErr, row |-> EmptyDict])),
                         Model, table, r + 1)

\* utils.py:158-301: the final frame of one call, iterated to its end
parse_step_objects(db, table, Model, raise_exceptions) ==
    MaterializeRows(
        ResolveNks(
            FetchIds(
                CollectIds(
                    CollectNks(ExamineHeadings(Frame0, Model, table.headings, 1), table, 1, 1),
                    table, 1),
                db, Model, 1),
            db, Model, raise_exceptions, 1, 1),
        Model, table, 1)

\* ------------------------------------------------------------- the Order rows
\* A stored Order: every column holds a python value (None for NULL); all
\* columns but id are nullable.
OrderRow(id, nk, customer_id, tag_id, plain_id, content_type_id, object_id) ==
    [id |-> id, nk |-> nk, customer_id |-> customer_id, tag_id |-> tag_id,
     plain_id |-> plain_id, content_type_id |-> content_type_id, object_id |-> object_id]
BlankOrder(id) == OrderRow(id, None, None, None, None, None, None)

\* ContentType.objects.get_for_model(obj): the primary key of the content type
ContentTypeIdOf(db, model) ==
    LET hits == {ct \in db["ContentType"] : model_class(ct) = model}
    IN  IF hits = {} THEN None ELSE IntV((CHOOSE ct \in hits : TRUE).id)

\* setattr(order, key, value) as Model(**data) and save() do it: a relation
\* takes an instance or None, a column takes the raw value
AssignField(db, order, key, value, instancesOnly) ==
    LET name == key[1]
        pkOf(v) == IF v.t \in {"obj", "int"} THEN IntV(v.id) ELSE None
        relation == name \in {"customer", "tag", "plain", "content_type"}
        ok(o) == [err |-> NoErr, order |-> o]
    IN  IF Len(key) # 1 THEN [err |-> Raise("TypeError"), order |-> order]
        ELSE IF relation /\ value.t \notin (IF instancesOnly THEN {"obj", "None"}
                                                               ELSE {"obj", "None", "int"})
             THEN [err |-> Raise("ValueError"), order |-> order]
        ELSE CASE name = "id" -> ok([order EXCEPT !.id = value.id])
               [] name = "nk" -> ok([order EXCEPT !.nk = value])
               [] name = "customer" -> ok([order EXCEPT !.customer_id = pkOf(value)])
               [] name = "tag" -> ok([order EXCEPT !.tag_id = pkOf(value)])
               [] name = "plain" -> ok([order EXCEPT !.plain_id = pkOf(value)])
               [] name = "content_type" -> ok([order EXCEPT !.content_type_id = pkOf(value)])
               [] name = "customer_id" -> ok([order EXCEPT !.customer_id = value])
               [] name = "tag_id" -> ok([order EXCEPT !.tag_id = value])
               [] name = "plain_id" -> ok([order EXCEPT !.plain_id = value])
               [] name = "content_type_id" -> ok([order EXCEPT !.content_type_id = value])
               [] name = "object_id" -> ok([order EXCEPT !.object_id = value])
               [] name = "target" ->
                    ok([order EXCEPT !.content_type_id =
                                         IF value.t = "obj" THEN ContentTypeIdOf(db, value.m) ELSE None,
                                     !.object_id = pkOf(value)])
               [] OTHER -> [err |-> Raise("TypeError"), order |-> order]

\* the fields of a resolved row assigned one after the other; the columns of a
\* ReplaceField group agree, so the order of assignment does not matter
RECURSIVE AssignFields(_, _, _, _, _)
AssignFields(db, acc, data, keys, instancesOnly) ==
    IF acc.err # NoErr \/ keys = {} THEN acc
    ELSE AssignFields(db, AssignField(db, acc.order, CHOOSE k \in keys : TRUE,
                                      data[CHOOSE k \in keys : TRUE], instancesOnly),
                      data, keys \ {CHOOSE k \in keys : TRUE}, instancesOnly)

MaxId(rows) == IF rows = {} THEN 0 ELSE CHOOSE n \in {o.id : o \in rows} : \A o \in rows : o.id <= n

\* db.py:67-71: baker.make(Model, **data) for every resolved row, in order
\* db.py:71-72: the row is saved and the sequence moves past it, unless baker.make raised
SaveMade(acc, made) ==
    IF made.err # NoErr THEN [acc EXCEPT !.err = made.err]
    ELSE [err |-> NoErr, rows |-> acc.rows \cup {made.order},
          seq |-> (IF made.order.id > acc.seq THEN made.order.id ELSE acc.seq) + 1]

RECURSIVE MakeRowsFrom(_, _, _, _)
MakeRowsFrom(db, acc, datas, i) ==
    IF acc.err # NoErr \/ i > Len(datas) THEN acc
    ELSE MakeRowsFrom(db, SaveMade(acc, AssignFields(db, [err |-> NoErr, order |-> BlankOrder(acc.seq)],
                                                     datas[i], DOMAIN datas[i], TRUE)),
                      datas, i + 1)

\* db.py:67-72: the table is resolved completely (list(...)) before any row is
\* made; then baker.make(Model, **data) for every resolved row, in order
MakeRows(db, rows, next_id, parsed, i) ==
    IF parsed.err # NoErr THEN [err |-> parsed.err, rows |-> rows, seq |-> next_id]
    ELSE MakeRowsFrom(db, [err |-> NoErr, rows |-> rows, seq |-> next_id], parsed.rows, i)

\* Model.objects.filter(**filters) on the identifying fields
FilterMatches(order, filters) ==
    \A key \in DOMAIN filters :
        /\ Len(key) = 1
        /\ CASE key[1] = "nk" -> order.nk = filters[key]
             [] key[1] = "id" -> IntV(order.id) = filters[key]
             [] OTHER -> FALSE

\* db.py:96-103: one resolved row: pop the identifying fields, update the
\* rows they select, then get() and save() that row unless signals are off
UpdateOne(db, rows, value_by_field, filter_fields, without_signals) ==
    LET keys == Range(filter_fields)
        filters == [key \in keys |-> value_by_field[key]]
        rest == [key \in (DOMAIN value_by_field) \ keys |-> value_by_field[key]]
        hit == {o \in rows : FilterMatches(o, filters)}
        changed == [o \in hit |-> AssignFields(db, [err |-> NoErr, order |-> o], rest, DOMAIN rest, FALSE)]
        updated == (rows \ hit) \cup {changed[o].order : o \in hit}
    IN  IF ~(keys \subseteq DOMAIN value_by_field) THEN [err |-> Raise("KeyError"), rows |-> rows]
        ELSE IF <<"target">> \in DOMAIN rest THEN [err |-> Raise("FieldError"), rows |-> rows]
        ELSE IF \E o \in hit : changed[o].err # NoErr
             THEN [err |-> changed[CHOOSE o \in hit : changed[o].err # NoErr].err, rows |-> rows]
        ELSE IF ~without_signals /\ hit = {}
             THEN [err |-> DoesNotExist("Order"), rows |-> updated]
        ELSE IF ~without_signals /\ Cardinality(hit) > 1
             THEN [err |-> Raise("MultipleObjectsReturned"), rows |-> updated]
        ELSE [err |-> NoErr, rows |-> updated]

RECURSIVE UpdateRowsFrom(_, _, _, _, _, _)
UpdateRowsFrom(db, acc, datas, filter_fields, without_signals, i) ==
    IF acc.err # NoErr \/ i > Len(datas) THEN acc
    ELSE UpdateRowsFrom(db, UpdateOne(db, acc.rows, datas[i], filter_fields, without_signals),
                        datas, filter_fields, without_signals, i + 1)

\* the generator's exception, if any, surfaces once the rows yielded before it are done
EndOfRows(acc, parsed) ==
    IF acc.err # NoErr THEN acc ELSE [acc EXCEPT !.err = parsed.err]

\* db.py:96-103: the rows are updated as the generator yields them
UpdateRows(db, rows, parsed, filter_fields, without_signals, i) ==
    EndOfRows(UpdateRowsFrom(db, [err |-> NoErr, rows |-> rows], parsed.rows,
                             filter_fields, without_signals, i),
              parsed)

\* ------------------------------------------------------------ the serializer
\* obj.natural_key(): only Customer and ContentType define it
HasNaturalKey(model) == model \in {"Customer", "ContentType"}

\* extract_field_value(order, "content_type") and (order, "target"): the
\* related rows, or no row (None)
ContentTypeOf(db, order) ==
    {ct \in db["ContentType"] : order.content_type_id = IntV(ct.id)}
TargetOf(db, order) ==
    {e \in UNION {db[m] : m \in DOMAIN db} :
        /\ \E ct \in ContentTypeOf(db, order) : model_class(ct) = e.m
        /\ order.object_id = IntV(e.id)}

\* utils.py:131-134: the text of a GenericForeignKey field
get_dump_object(db, order) ==
    LET cts == ContentTypeOf(db, order)
        targets == TargetOf(db, order)
        ct == CHOOSE c \in cts : TRUE
        target == CHOOSE e \in targets : TRUE
    IN  IF cts = {} \/ targets = {} \/ ~HasNaturalKey(target.m)
        THEN [err |-> Raise("AttributeError"), text |-> <<>>]
        ELSE [err |-> NoErr,
              text |-> <<"[">> \o yaml_dump(ct.nk) \o <<",">> \o yaml_dump(target.nk) \o <<"]">>]

\* ------------------------------------------------------ extract_field_value
\* What extract_field_value walks: None, a value, an entity (Obj), a model
\* instance with its attributes (an Order row, a Sample) or a dict row keyed by
\* field paths.
Instance(model, attrs) == [t |-> "model", m |-> model, attrs |-> attrs]
DictRow(d) == [t |-> "dictrow", d |-> d]
Got(v) == [err |-> NoErr, val |-> v]
Raised(type) == [err |-> Raise(type), val |-> None]

\* the related row of a foreign key column: None for NULL, DoesNotExist when
\* the row is gone
RelatedOf(db, model, column) ==
    IF column = None THEN Got(None)
    ELSE IF \E e \in db[model] : IntV(e.id) = column
         THEN Got(Obj(CHOOSE e \in db[model] : IntV(e.id) = column))
    ELSE [err |-> DoesNotExist(model), val |-> None]

\* getattr(order, name)
OrderAttr(db, row, name) ==
    CASE name \in {"id", "pk"} -> Got(IntV(row.id))
      [] name = "nk" -> Got(row.nk)
      [] name = "customer_id" -> Got(row.customer_id)
      [] name = "tag_id" -> Got(row.tag_id)
      [] name = "plain_id" -> Got(row.plain_id)
      [] name = "content_type_id" -> Got(row.content_type_id)
      [] name = "object_id" -> Got(row.object_id)
      [] name = "customer" -> RelatedOf(db, "Customer", row.customer_id)
      [] name = "tag" -> RelatedOf(db, "Tag", row.tag_id)
      [] name = "plain" -> RelatedOf(db, "Plain", row.plain_id)
      [] name = "content_type" -> RelatedOf(db, "ContentType", row.content_type_id)
      [] name = "target" ->
            IF TargetOf(db, row) = {} THEN Got(None)
            ELSE Got(Obj(CHOOSE e \in TargetOf(db, row) : TRUE))
      [] OTHER -> Raised("AttributeError")

\* getattr(entity, name)
EntityAttr(e, name) ==
    CASE name \in {"id", "pk"} -> Got(IntV(e.id))
      [] name = "nk" /\ e.m \in {"Customer", "Tag"} -> Got(StrV(e.s))
      [] name = "name" /\ e.m = "Plain" -> Got(StrV(e.s))
      [] name = "app_label" /\ e.m = "ContentType" -> Got(StrV(<<e.s[1]>>))
      [] name = "model" /\ e.m = "ContentType" -> Got(StrV(<<e.s[2]>>))
      [] OTHER -> Raised("AttributeError")

\* utils.py:53-56, 60: getattr on an object, operator.getitem on a dict
get_val(db, data, name) ==
    CASE data.t = "dictrow" ->
            IF <<name>> \in DOMAIN data.d THEN Got(data.d[<<name>>]) ELSE Raised("KeyError")
      [] data.t = "model" /\ data.m = "Order" -> OrderAttr(db, data.attrs, name)
      [] data.t = "model" /\ data.m # "Order" ->
            IF name \in DOMAIN data.attrs THEN Got(data.attrs[name])
            ELSE Raised("AttributeError")
      [] data.t = "obj" -> EntityAttr(data, name)
      [] OTHER -> Raised("AttributeError")

\* utils.py:62: a dict value of a field that is no JSONField is rendered by str
Rendered(data, name, got) ==
    IF got.err # NoErr THEN got
    ELSE IF got.val.t = "dict" /\ MetaGetField(data.m, name).field.kind # "JSONField"
         THEN Got(StrV(got.val.s))
    ELSE got

\* utils.py:65-69: AttributeError, and nothing else, is caught
Caught(r, raise_exceptions) ==
    IF r.err.type = "AttributeError" /\ ~raise_exceptions THEN Got(None) ELSE r

\* utils.py:46-69
RECURSIVE extract_field_value(_, _, _, _)
ExtractRemaining(db, got, remaining_field, raise_exceptions) ==
    IF got.err # NoErr THEN got
    ELSE extract_field_value(db, got.val, remaining_field, raise_exceptions)

extract_field_value(db, data_or_model, field, raise_exceptions) ==
    IF ~raise_exceptions /\ data_or_model = None THEN Got(None)
    ELSE IF data_or_model.t = "dictrow" /\ field \in DOMAIN data_or_model.d
         THEN Got(data_or_model.d[field])
    ELSE IF Len(field) = 1
         THEN Caught(Rendered(data_or_model, field[1], get_val(db, data_or_model, field[1])),
                     raise_exceptions)
    ELSE Caught(ExtractRemaining(db, get_val(db, data_or_model, field[1]), Tail(field),
                                 raise_exceptions),
                raise_exceptions)

\* -------------------------------------------------------- database_has_rows
\* db.py:141: Model.objects.select_related().order_by('pk') (order_fields only
\* changes the order the rows are read in)
RECURSIVE OrderedByPk(_)
OrderedByPk(rows) ==
    IF rows = {} THEN <<>>
    ELSE LET first == CHOOSE o \in rows : \A p \in rows : o.id <= p.id
         IN  <<first>> \o OrderedByPk(rows \ {first})

\* inspect.getfullargspec(ForeignModel.objects.get_by_natural_key).args[1:]
NkArgNames(model) == IF model = "ContentType" THEN <<"app_label", "model">> ELSE <<"nk">>

\* db.py:158: dict(zip([field__k for k in keys], yaml.load(cell))): no document
\* (None) and an integer cannot be zipped, a sequence is zipped item by item
ZipNaturalKey(acc, field, keys, cell) ==
    IF cell = <<>> THEN [acc EXCEPT !.err = Raise("TypeError")]
    ELSE IF ~yaml_load(cell).ok THEN [acc EXCEPT !.err = Raise("YAMLError")]
    ELSE IF ~YIsScalarSeq(yaml_load(cell).val) THEN [acc EXCEPT !.err = Raise("TypeError")]
    ELSE [acc EXCEPT !.f =
            DictUpdate([k \in (DOMAIN acc.f) \ {field} |-> acc.f[k]],
                       [k \in {field \o <<keys[i]>> :
                                   i \in 1..(IF Len(keys) < Len(YArgs(yaml_load(cell).val))
                                             THEN Len(keys)
                                             ELSE Len(YArgs(yaml_load(cell).val)))} |->
                           <<YArgs(yaml_load(cell).val)[IndexOf(keys, k[Len(k)])]>>])]

\* db.py:150-158: one identifying field of one row
FilterField(acc, Model, table, r, field) ==
    IF field \notin Range(table.headings) THEN [acc EXCEPT !.err = Raise("KeyError")]
    ELSE IF Len(field) # 1 \/ MetaGetField(Model, field[1]).err # NoErr
         THEN [acc EXCEPT !.err = Raise("FieldDoesNotExist")]
    ELSE IF /\ MetaGetField(Model, field[1]).field.related_model # ""
            /\ HasGetByNaturalKey(MetaGetField(Model, field[1]).field.related_model)
         THEN ZipNaturalKey([acc EXCEPT !.f = DictSet(@, field, RowGet(table, r, field))], field,
                            NkArgNames(MetaGetField(Model, field[1]).field.related_model),
                            RowGet(table, r, field))
    ELSE [acc EXCEPT !.f = DictSet(@, field, RowGet(table, r, field))]

\* db.py:149-158: the _filter of row r from identifying field i on
RECURSIVE RowFilter(_, _, _, _, _, _)
RowFilter(acc, Model, table, r, filter_fields, i) ==
    IF acc.err # NoErr \/ i > Len(filter_fields) THEN acc
    ELSE RowFilter(FilterField(acc, Model, table, r, filter_fields[i]), Model, table, r,
                   filter_fields, i + 1)

\* db.py:159-160: if _filter: filters.append(Q(**_filter))
AppendFilter(acc, one) ==
    IF one.err # NoErr THEN [acc EXCEPT !.err = one.err]
    ELSE IF one.f = EmptyDict THEN acc
    ELSE [acc EXCEPT !.filters = Append(@, one.f)]

\* db.py:147-160: the filters of the rows from row r on
RECURSIVE RowFilters(_, _, _, _, _)
RowFilters(acc, Model, table, filter_fields, r) ==
    IF acc.err # NoErr \/ r > Len(table.rows) THEN acc
    ELSE RowFilters(AppendFilter(acc, RowFilter([err |-> NoErr, f |-> EmptyDict], Model, table, r,
                                                filter_fields, 1)),
                    Model, table, filter_fields, r + 1)

\* Q(**_filter) on an Order: every lookup holds; the cells are texts
QMatches(db, order, f) ==
    \A key \in DOMAIN f :
        CASE key = <<"id">> -> isdigit(f[key]) /\ order.id = int(f[key][1])
          [] key = <<"nk">> -> order.nk = StrV(f[key])
          [] key = <<"customer", "nk">> ->
                \E e \in db["Customer"] : order.customer_id = IntV(e.id) /\ e.nk = f[key]
          [] OTHER -> FALSE

\* a lookup the query compiler rejects: an id that is no number
QRejected(f) == <<"id">> \in DOMAIN f /\ ~isdigit(f[<<"id">>])

\* db.py:161: queryset.filter(reduce(operator.or_, filters)); reduce of an
\* empty list raises TypeError
FilteredBy(db, rows, got) ==
    IF got.err # NoErr THEN [err |-> got.err, rows |-> <<>>]
    ELSE IF got.filters = <<>> THEN [err |-> Raise("TypeError"), rows |-> <<>>]
    ELSE IF \E i \in 1..Len(got.filters) : QRejected(got.filters[i])
         THEN [err |-> Raise("ValueError"), rows |-> <<>>]
    ELSE [err |-> NoErr,
          rows |-> OrderedByPk({o \in rows :
                                   \E i \in 1..Len(got.filters) : QMatches(db, o, got.filters[i])})]

\* the whole table read in either mode
QuerysetUnfiltered(db, rows, Model, table, contiene, filter_fields) ==
    [err |-> NoErr, rows |-> OrderedByPk(rows)]

\* db.py:137-161: the rows the step reads
Queryset(db, rows, Model, table, contiene, filter_fields) ==
    IF contiene
    THEN FilteredBy(db, rows,
                    RowFilters([err |-> NoErr, filters |-> <<>>], Model, table, filter_fields, 1))
    ELSE [err |-> NoErr, rows |-> OrderedByPk(rows)]

\* db.py:167, 185: {field: extract_field_value(data, field) for field in fields}
CleanField(acc, field, got) ==
    IF got.err # NoErr THEN [acc EXCEPT !.err = got.err]
    ELSE [acc EXCEPT !.row = DictSet(@, field, got.val)]

RECURSIVE CleanRow(_, _, _, _, _)
CleanRow(db, data, fields, i, acc) ==
    IF acc.err # NoErr \/ i > Len(fields) THEN acc
    ELSE CleanRow(db, data, fields, i + 1,
                  CleanField(acc, fields[i], extract_field_value(db, data, fields[i], FALSE)))

\* db.py:168, 186: tuple(clean_row[field] for field in filter_fields)
KeyOf(clean_row, filter_fields) ==
    [i \in 1..Len(filter_fields) |-> clean_row[filter_fields[i]]]

\* the duplicate key accepted, the later row replacing the earlier
KeepActualLenient(acc, clean, filter_fields) ==
    IF clean.err # NoErr THEN [acc EXCEPT !.err = clean.err]
    ELSE IF ~(Range(filter_fields) \subseteq DOMAIN clean.row)
         THEN [acc EXCEPT !.err = Raise("KeyError")]
    ELSE [acc EXCEPT !.map = DictSet(@, KeyOf(clean.row, filter_fields), clean.row)]

\* db.py:168-172: the key of an actual row must be new
KeepActual(acc, clean, filter_fields) ==
    IF clean.err # NoErr THEN [acc EXCEPT !.err = clean.err]
    ELSE IF ~(Range(filter_fields) \subseteq DOMAIN clean.row)
         THEN [acc EXCEPT !.err = Raise("KeyError")]
    ELSE IF KeyOf(clean.row, filter_fields) \in DOMAIN acc.map
         THEN [acc EXCEPT !.err = Raise("MultipleObjectsReturned")]
    ELSE [acc EXCEPT !.map = DictSet(@, KeyOf(clean.row, filter_fields), clean.row)]

\* db.py:166-172
RECURSIVE ActualRows(_, _, _, _, _, _)
ActualRows(db, queryset, fields, filter_fields, i, acc) ==
    IF acc.err # NoErr \/ i > Len(queryset) THEN acc
    ELSE ActualRows(db, queryset, fields, filter_fields, i + 1,
                    KeepActual(acc,
                               CleanRow(db, Instance("Order", queryset[i]), fields, 1,
                                        [err |-> NoErr, row |-> EmptyDict]),
                               filter_fields))

\* db.py:186-187: a later expected row replaces an earlier one of the same key
KeepExpected(acc, clean, filter_fields) ==
    IF clean.err # NoErr THEN [acc EXCEPT !.err = clean.err]
    ELSE IF ~(Range(filter_fields) \subseteq DOMAIN clean.row)
         THEN [acc EXCEPT !.err = Raise("KeyError")]
    ELSE [acc EXCEPT !.map = DictSet(@, KeyOf(clean.row, filter_fields), clean.row)]

\* db.py:184-187
RECURSIVE ExpectedRows(_, _, _, _, _, _)
ExpectedRows(db, hashes, fields, filter_fields, i, acc) ==
    IF acc.err # NoErr \/ i > Len(hashes) THEN acc
    ELSE ExpectedRows(db, hashes, fields, filter_fields, i + 1,
                      KeepExpected(acc,
                                   CleanRow(db, DictRow(hashes[i]), fields, 1,
                                            [err |-> NoErr, row |-> EmptyDict]),
                                   filter_fields))

\* What the step leaves behind: its exception, the two mappings, the pair its
\* assertion reports (two key sets or two rows), whether parse_step_objects was
\* called and that call's frame
NoReport == [kind |-> "", actual |-> {}, expected |-> {}]
Report(kind, actual, expected) == [kind |-> kind, actual |-> actual, expected |-> expected]
Compared(err, actual, expected, report, parsed, fr) ==
    [err |-> err, actual |-> actual, expected |-> expected, report |-> report,
     parsed |-> parsed, frame |-> fr]

\* the key sets compared as the rows were: by the keys the two have in common
KeysAgreeWhereShared(actual, expected) == TRUE

\* db.py:190: actual_values_by_id.keys() == expected_values_by_id.keys()
KeysAgree(actual, expected) == DOMAIN actual = DOMAIN expected

\* db.py:190-194: the key sets, then the rows one by one
Compare(actual, exp, fr) ==
    IF exp.err # NoErr THEN Compared(exp.err, actual, exp.map, NoReport, TRUE, fr)
    ELSE IF ~KeysAgree(actual, exp.map)
         THEN Compared(Raise("AssertionError"), actual, exp.map,
                       Report("keys", DOMAIN actual, DOMAIN exp.map), TRUE, fr)
    ELSE IF \E k \in (DOMAIN exp.map) \cap (DOMAIN actual) : actual[k] # exp.map[k]
         THEN Compared(Raise("AssertionError"), actual, exp.map,
                       \* the first key in the order the expected rows were given
                       (LET k == CHOOSE k \in (DOMAIN exp.map) \cap (DOMAIN actual) :
                                     actual[k] # exp.map[k]
                        IN  Report("rows", actual[k], exp.map[k])),
                       TRUE, fr)
    ELSE Compared(NoErr, actual, exp.map, NoReport, TRUE, fr)

\* db.py:176-187: list(parse_step_objects(...)): an exception of the generator
\* discards the rows yielded before it
AfterParse(db, table, filter_fields, actual, fr) ==
    IF fr.err # NoErr THEN Compared(fr.err, actual, EmptyDict, NoReport, TRUE, fr)
    ELSE Compare(actual,
                 ExpectedRows(db, fr.rows, table.headings, filter_fields, 1,
                              [err |-> NoErr, map |-> EmptyDict]),
                 fr)

AfterActual(db, table, Model, filter_fields, act) ==
    IF act.err # NoErr THEN Compared(act.err, act.map, EmptyDict, NoReport, FALSE, Frame0)
    ELSE AfterParse(db, table, filter_fields, act.map,
                    parse_step_objects(db, table, Model, FALSE))

AfterQuery(db, table, Model, filter_fields, queryset) ==
    IF queryset.err # NoErr
    THEN Compared(queryset.err, EmptyDict, EmptyDict, NoReport, FALSE, Frame0)
    ELSE AfterActual(db, table, Model, filter_fields,
                     ActualRows(db, queryset.rows, table.headings, filter_fields, 1,
                                [err |-> NoErr, map |-> EmptyDict]))

\* db.py:112-194
database_has_rows(db, rows, Model, table, contiene, filter_fields) ==
    AfterQuery(db, table, Model, filter_fields,
               Queryset(db, rows, Model, table, contiene, filter_fields))

\* ------------------------------------------------------------------- inputs
NkCell(w) == <<"[", w, "]">>
GenericCell(app, model, nk) == <<"[", "[", app, ",", model, "]", ",", "[", nk, "]", "]">>
F_nk == <<"nk">>
F_customer == <<"customer">>
F_customer_id == <<"customer_id">>
F_tag == <<"tag">>
F_plain == <<"plain">>
F_target == <<"target">>

\* the cells a test author writes under each heading
CellsOf(heading) ==
    CASE heading = F_nk -> {<<"O1">>}
      [] heading \in {F_customer, F_customer_id} ->
            {<<>>, <<"1">>, <<"2">>, NkCell("C1"), NkCell("C2"), <<"abc">>}
      [] heading = F_tag -> {<<>>, <<"1">>, NkCell("T1"), NkCell("T2"), <<"abc">>}
      [] heading = F_plain -> {<<>>, <<"1">>, <<"2">>, NkCell("P1"), <<"abc">>}
      [] heading = F_target ->
            {<<>>, <<"abc">>,
             GenericCell("shop", "customer", "C1"),
             GenericCell("shop", "customer", "C2"),
             <<"[", "[", "shop", ",", "customer", "]", ",", "C1", "]">>,
             GenericCell("shop", "nosuch", "C1"),
             GenericCell("shop", "tag", "T1"),
             <<"[", "[", "contenttypes", ",", "contenttype", "]", ",",
               "[", "shop", ",", "tag", "]", "]">>,
             <<"[", "[", "contenttypes", ",", "contenttype", "]", ",",
               "[", "shop", ",", "nosuch", "]", "]">>}
      [] OTHER -> {}

HeadingChoices ==
    {<<F_customer>>, <<F_customer_id>>, <<F_tag>>, <<F_plain>>, <<F_target>>,
     <<F_nk, F_customer>>}

\* all rows under the given headings
RECURSIVE RowsOf(_)
RowsOf(headings) ==
    IF Len(headings) = 0 THEN {<<>>}
    ELSE {<<c>> \o rest : c \in CellsOf(Head(headings)), rest \in RowsOf(Tail(headings))}

Tables ==
    UNION {{Table(h, rows) : rows \in SeqsUpTo(RowsOf(h), MaxRows)} : h \in HeadingChoices}
UpdateTables == {t \in Tables : F_nk \in Range(t.headings)}

ContentTypes == {CtCustomer, CtTag, CtContentType}
Stores ==
    {[Customer |-> cs, Tag |-> ts, Plain |-> {Plain1}, ContentType |-> ContentTypes] :
        cs \in {{Customer1}, {Customer1, Customer2}}, ts \in {{Tag1}}}

\* Orders already stored when the step runs
OrderToCustomer1 == OrderRow(1, StrV(<<"O1">>), None, None, None, IntV(1), IntV(1))
OrderToCtTag == OrderRow(2, StrV(<<"O2">>), None, None, None, IntV(3), IntV(2))
InitialOrders == {{}, {OrderToCustomer1, OrderToCtTag}}

\* ------------------------------------------------------------ http requests
NoTable == [headings |-> <<>>, rows |-> <<>>, absent |-> TRUE]
F_key == <<"key">>
F_value == <<"value">>

\* the payload of a request: nothing, the text, or a list of what the table
\* was iterated by
NoBody == [t |-> "None", of |-> "", items |-> <<>>]
TextBody(text) == [t |-> "str", of |-> "", items |-> text]
ListBody(of, items) == [t |-> "list", of |-> of, items |-> items]

\* http.py:43-53: the data of the request.  In
\* {item['key']: item['value'] for item in context.table.headings} an item is
\* a heading, a str, and str['key'] raises TypeError
request_data(text, table) ==
    IF text # <<>> THEN [err |-> NoErr, data |-> TextBody(text)]
    ELSE IF "absent" \in DOMAIN table THEN [err |-> NoErr, data |-> NoBody]
    ELSE IF Len(table.headings) = 2 /\ F_key \in Range(table.headings)
            /\ F_value \in Range(table.headings)
         THEN [err |-> Raise("TypeError"), data |-> NoBody]
    ELSE [err |-> NoErr, data |-> ListBody("headings", table.headings)]

\* ------------------------------------------------------------ the sequence
\* utils.py:374-376: connection.ops.sequence_reset_sql (PostgreSQL): the next
\* id is max(id) + 1, and 1 on an empty table
SequenceReset(rows) == IF rows = {} THEN 1 ELSE MaxId(rows) + 1

\* utils.py:343-378: what is returned and the next id the sequence gives
reset_db_seq(Model, rows, sequence, next_value) ==
    IF MetaGetField(Model, "id").err # NoErr THEN [val |-> None, seq |-> sequence]
    ELSE IF next_value = None \/ next_value = IntV(0)
         THEN IF rows = {} THEN [val |-> None, seq |-> sequence]
              ELSE [val |-> IntV(MaxId(rows) + 1), seq |-> SequenceReset(rows)]
    ELSE [val |-> next_value, seq |-> SequenceReset(rows)]

\* ------------------------------------------------------------------- mocks
\* The scopes the registry is keyed by: the two of the steps and fixtures, and
\* the default scope of MockDict.step (mocks.py:183)
Scopes == {"escenario", "caracteristica", "scenario"}
DefaultStepScope == "scenario"

\* The mocks of a test suite: two defined with @mocker, of which one has a
\* teardown that raises, and the step mock of mocks.py:328
EnvMock == "explicit_behave.mocks.mock_environment_variables"
Registered == {"app.Foo", "app.Broken", EnvMock}
TeardownRaises(name) == name = "app.Broken"
StopIteration == Raise("StopIteration")

\* mocks.py:166-170: a generator run up to its yield
Started(name) == [name |-> name, state |-> "started", teardowns |-> 0]

\* mocks.py:89-91, then the decorators registering the mocks
Registry0 == [mocks |-> Registered, active |-> [s \in Scopes |-> <<>>], gens |-> <<>>]

\* mocks.py:160-173 wrapped(): the start code runs, the handle is the generator
wrapped(reg, name) == [reg EXCEPT !.gens = Append(@, Started(name))]

\* the names active in the given scope only
ActiveInScope(active, scope) == {active[scope][i].name : i \in 1..Len(active[scope])}

\* mocks.py:119-121: the names active in any scope
ActiveAnywhere(active, scope) ==
    UNION {{active[s][i].name : i \in 1..Len(active[s])} : s \in DOMAIN active}

\* mocks.py:117-125
activate(reg, scope, name, func) ==
    IF name \in ActiveAnywhere(reg.active, scope) THEN [err |-> Raise("ValueError"), reg |-> reg]
    ELSE [err |-> NoErr,
          reg |-> [reg EXCEPT !.active[scope] = Append(@, [name |-> name, gen |-> func])]]

\* mocks.py:142-149: the argument of activate, self.mocks[name](...), is
\* evaluated before activate is entered
run(reg, scope, name) ==
    IF name \notin reg.mocks THEN [err |-> Raise("ValueError"), reg |-> reg]
    ELSE activate(wrapped(reg, name), scope, name, Len(reg.gens) + 1)

\* the teardown run again on every call
ResumeAgain(gens, g) ==
    [exc |-> IF TeardownRaises(gens[g].name) THEN Raise("RuntimeError") ELSE StopIteration,
     gens |-> [gens EXCEPT ![g].state = "finished", ![g].teardowns = @ + 1]]

\* partial(next, gen)(): the code after the yield runs and the generator ends,
\* by StopIteration or by what the teardown raises; a generator that has ended
\* raises StopIteration at once
Resume(gens, g) ==
    IF gens[g].state = "started"
    THEN [exc |-> IF TeardownRaises(gens[g].name) THEN Raise("RuntimeError") ELSE StopIteration,
          gens |-> [gens EXCEPT ![g].state = "finished", ![g].teardowns = @ + 1]]
    ELSE [exc |-> StopIteration, gens |-> gens]

\* mocks.py:107-112: only StopIteration is passed
StopOne(acc, resumed) ==
    [err |-> IF resumed.exc = StopIteration THEN NoErr ELSE resumed.exc, gens |-> resumed.gens]

\* mocks.py:106-112: the active mocks of the scope from the i-th on
RECURSIVE StopFrom(_, _, _)
StopFrom(acc, entries, i) ==
    IF acc.err # NoErr \/ i > Len(entries) THEN acc
    ELSE StopFrom(StopOne(acc, Resume(acc.gens, entries[i].gen)), entries, i + 1)

\* mocks.py:115: active_mock_by_name.clear(), reached when nothing was raised
Cleared(reg, scope, stopped) ==
    [err |-> stopped.err,
     reg |-> [reg EXCEPT !.gens = stopped.gens,
                         !.active[scope] = IF stopped.err = NoErr THEN <<>> ELSE @]]

\* mocks.py:99-115
stop(reg, scope) ==
    Cleared(reg, scope, StopFrom([err |-> NoErr, gens |-> reg.gens], reg.active[scope], 1))

\* the entries of a scope without the one of the name
Without(entries, name) == SelectSeq(entries, LAMBDA e : e.name # name)

\* mocks.py:133-137: pop, then the teardown; only StopIteration is passed
Popped(reg, scope, name, resumed) ==
    [err |-> IF resumed.exc = StopIteration THEN NoErr ELSE resumed.exc,
     reg |-> [reg EXCEPT !.gens = resumed.gens, !.active[scope] = Without(@, name)]]

\* mocks.py:127-140
stop_mock(reg, name) ==
    IF \A s \in DOMAIN reg.active : name \notin ActiveInScope(reg.active, s)
    THEN [err |-> Raise("ValueError"), reg |-> reg]
    ELSE \* the first scope that holds the name
         LET scope == CHOOSE s \in DOMAIN reg.active : name \in ActiveInScope(reg.active, s)
             entry == reg.active[scope][CHOOSE i \in 1..Len(reg.active[scope]) :
                                            reg.active[scope][i].name = name]
         IN  Popped(reg, scope, name, Resume(reg.gens, entry.gen))

\* -------------------------------------------------------------------- state
VARIABLES
    db,         \* the referenced entity types and their rows
    orders,     \* the rows of Order
    seq,        \* the next identifier of Order's sequence
    pc,         \* "ready" before the step, "done" after it
    call,       \* the step that ran and its arguments
    frame,      \* the final frame of the step's parse_step_objects call
    outcome,    \* the exception the step ended with, NoErr if none
    ret,        \* what a function called on its own returned
    registry    \* MOCK_REGISTRY: the registered mocks, the active ones, the generators

vars == <<db, orders, seq, pc, call, frame, outcome, ret, registry>>

NoRet == [err |-> NoErr, val |-> None]

NoCall ==
    [step |-> "", table |-> Table(<<>>, <<>>), raise_exceptions |-> FALSE, flag |-> FALSE,
     before |-> {}, text |-> <<>>, path |-> <<>>, data |-> None, filter_fields |-> <<>>,
     expected |-> Table(<<>>, <<>>)]

Init ==
    /\ db \in Stores
    /\ orders \in InitialOrders
    /\ seq = MaxId(orders) + 1
    /\ pc = "ready"
    /\ call = NoCall
    /\ frame = Frame0
    /\ outcome = NoErr
    /\ ret = NoRet
    /\ registry = Registry0

\* utils.py:158: a direct call, iterated to the end
ParseStepObjects(table, raise_exceptions) ==
    /\ pc = "ready"
    /\ pc' = "done"
    /\ call' = [NoCall EXCEPT !.step = "parse_step_objects", !.table = table,
                              !.raise_exceptions = raise_exceptions, !.before = orders]
    /\ frame' = parse_step_objects(db, table, "Order", raise_exceptions)
    /\ outcome' = frame'.err
    /\ UNCHANGED <<registry, db, orders, seq, ret>>

\* the mode in which insert_to_db resolves its table (db.py:67)
InsertMode == FALSE

\* db.py:42-72
insert_to_db(table, limpio) ==
    /\ pc = "ready"
    /\ pc' = "done"
    /\ call' = [NoCall EXCEPT !.step = "insert_to_db", !.table = table,
                              !.raise_exceptions = InsertMode, !.flag = limpio,
                              !.before = IF limpio THEN {} ELSE orders]
    /\ frame' = parse_step_objects(db, table, "Order", InsertMode)
    /\ \E made \in {MakeRows(db, call'.before, IF limpio THEN 1 ELSE seq, frame', 1)} :
          /\ outcome' = made.err
          /\ orders' = made.rows
          /\ seq' = IF made.err = NoErr THEN MaxId(made.rows) + 1
                    ELSE (IF limpio THEN 1 ELSE seq) + Cardinality(made.rows \ call'.before)
    /\ UNCHANGED <<registry, db, ret>>

\* the mode in which update_row_in_db resolves its table (db.py:96)
UpdateMode == TRUE

\* db.py:76-103, rows identified by "nk"
update_row_in_db(table, without_signals) ==
    /\ pc = "ready"
    /\ pc' = "done"
    /\ call' = [NoCall EXCEPT !.step = "update_row_in_db", !.table = table,
                              !.raise_exceptions = UpdateMode, !.flag = without_signals,
                              !.before = orders]
    /\ frame' = parse_step_objects(db, table, "Order", UpdateMode)
    /\ \E done \in {UpdateRows(db, orders, frame', <<F_nk>>, without_signals, 1)} :
          /\ orders' = done.rows
          /\ outcome' = done.err
    /\ UNCHANGED <<registry, db, seq, ret>>

\* utils.py:127-137 then utils.py:158: the generic reference of a stored Order
\* is rendered and the rendered text is resolved as a one-cell table
RenderThenParse(order, raise_exceptions) ==
    LET dumped == get_dump_object(db, order)
        table == Table(<<F_target>>, << <<dumped.text>> >>)
    IN  /\ pc = "ready"
        /\ order \in orders
        /\ pc' = "done"
        /\ call' = [NoCall EXCEPT !.step = "render", !.table = table,
                                  !.raise_exceptions = raise_exceptions,
                                  !.before = {order}, !.text = dumped.text]
        /\ frame' = IF dumped.err # NoErr THEN [Frame0 EXCEPT !.err = dumped.err]
                    ELSE parse_step_objects(db, table, "Order", raise_exceptions)
        /\ outcome' = frame'.err
        /\ UNCHANGED <<registry, db, orders, seq, ret>>

\* the fields of Sample and the cells a test author writes under them
F_order == <<"order">>
SampleFields ==
    {<<"count">>, <<"ratio">>, <<"active">>, <<"day">>, <<"moment">>, <<"payload">>,
     <<"name">>, <<"notes">>, F_order}
CoerceCells ==
    {<<>>, <<"\"\"">>, <<"''">>, <<"abc">>, <<"1">>, <<"7">>, <<"1.5">>, <<"True">>, <<"f">>,
     <<"2020-01-02">>, <<"2020-13-45">>, <<"2020-01-02T03:04:05">>,
     <<"null">>, <<"{}">>, <<"{">>}

\* utils.py:312: get_to_python_field(Sample, field, cell) called on its own
Coerce(field, cell) ==
    /\ pc = "ready"
    /\ pc' = "done"
    /\ call' = [NoCall EXCEPT !.step = "get_to_python_field", !.path = field, !.text = cell]
    /\ ret' = get_to_python_field("Sample", field, StrV(cell))
    /\ outcome' = ret'.err
    /\ UNCHANGED <<registry, db, orders, seq, frame>>

\* the tables of the assertion step and the fields that identify its rows
F_id == <<"id">>
AssertCells(heading) ==
    CASE heading = F_id -> {<<"1">>, <<"2">>, <<"3">>}
      [] heading = F_nk -> {<<"O1">>, <<"O2">>}
      [] heading = F_customer -> {<<>>, <<"1">>, NkCell("C1")}
      [] OTHER -> {}
AssertHeadings == {<<F_id, F_nk>>, <<F_nk, F_customer>>}
AssertRows(headings) ==
    {<<a, b>> : a \in AssertCells(headings[1]), b \in AssertCells(headings[2])}
AssertTables ==
    UNION {{Table(h, rows) : rows \in SeqsUpTo(AssertRows(h), MaxRows)} : h \in AssertHeadings}
IdentifyingFields == {<<F_id>>, <<F_nk>>, <<F_customer>>}

\* db.py:111: Then "Order" tiene exactamente | contiene las siguientes lineas
\* identificadas por "<filter_fields>"
DatabaseHasRows(table, contiene, filter_fields) ==
    /\ pc = "ready"
    /\ pc' = "done"
    /\ call' = [NoCall EXCEPT !.step = "database_has_rows", !.expected = table,
                              !.flag = contiene, !.filter_fields = filter_fields,
                              !.before = orders]
    /\ \E res \in {database_has_rows(db, orders, "Order", table, contiene, filter_fields)} :
            /\ frame' = res.frame
            /\ ret' = [err |-> res.err,
                       val |-> [actual |-> res.actual, expected |-> res.expected,
                                report |-> res.report, parsed |-> res.parsed]]
    /\ outcome' = ret'.err
    /\ UNCHANGED <<registry, db, orders, seq>>

\* the bodies of a request step: a text, a key/value table, another table
BodyTexts == {<<>>, <<"{", "}">>}
BodyRows(n) == UNION {[1..k -> [1..n -> {<<"a">>, <<"1">>}]] : k \in 1..MaxRows}
BodyTables ==
    {NoTable}
    \cup {Table(<<F_key, F_value>>, rows) : rows \in BodyRows(2)}
    \cup {Table(<<F_value, F_key>>, rows) : rows \in BodyRows(2)}
    \cup {Table(<<F_key, F_nk>>, rows) : rows \in BodyRows(2)}
    \cup {Table(<<F_nk>>, rows) : rows \in BodyRows(1)}

\* http.py:19-63: hago un "<method>" a la url "<url>": the request is sent with
\* the data, unless building the data raised
HttpRequest(method, text, table) ==
    /\ pc = "ready"
    /\ pc' = "done"
    /\ call' = [NoCall EXCEPT !.step = "http", !.text = text, !.path = <<method>>,
                              !.expected = table]
    /\ \E built \in {request_data(text, table)} :
            /\ ret' = [err |-> built.err, val |-> built.data]
            /\ outcome' = built.err
    /\ UNCHANGED <<registry, db, orders, seq, frame>>

\* utils.py:343: reset_db_seq(Model, next_value) called on its own
NextValues == {None, IntV(0), IntV(1), IntV(5)}
ResetDbSeq(Model, next_value) ==
    /\ pc = "ready"
    /\ pc' = "done"
    /\ call' = [NoCall EXCEPT !.step = "reset_db_seq", !.text = <<Model>>, !.data = next_value,
                              !.before = orders]
    /\ \E reset \in {reset_db_seq(Model, IF Model = "Order" THEN orders ELSE {}, seq,
                                    next_value)} :
            /\ ret' = [err |-> NoErr, val |-> reset.val]
            /\ seq' = reset.seq
    /\ outcome' = NoErr
    /\ UNCHANGED <<registry, db, orders, frame>>

\* the paths handed to get_field, from Sample and from Order
PathChoices ==
    {<<"count">>, <<"zzz">>, <<"order", "nk">>, <<"order", "customer", "nk">>,
     <<"order", "customer", "zzz">>, <<"order", "zzz", "nk">>, <<"name", "x">>,
     <<"order", "target", "nk">>, <<"order", "customer_id">>, <<"customer", "nk">>,
     <<"nk", "x">>, <<"target", "nk">>}

\* utils.py:30: get_field(model, path) called on its own; ret.val is the field
GetField(model, path) ==
    /\ pc = "ready"
    /\ pc' = "done"
    /\ call' = [NoCall EXCEPT !.step = "get_field", !.path = path, !.text = <<model>>]
    /\ ret' = [err |-> get_field(model, path).err, val |-> get_field(model, path).field]
    /\ outcome' = ret'.err
    /\ UNCHANGED <<registry, db, orders, seq, frame>>

\* what extract_field_value is called on: None, a stored Order, a dict row
ExtractData ==
    {None} \cup {Instance("Order", o) : o \in orders}
           \cup {DictRow(F_customer :> Obj(Customer1)), DictRow(F_customer :> None),
                 DictRow((F_nk :> StrV(<<"O1">>)) @@ (<<"customer", "nk">> :> StrV(<<"C1">>)))}
ExtractPaths ==
    {F_nk, F_customer, F_customer_id, F_target, <<"customer", "nk">>, <<"target", "nk">>,
     <<"content_type", "model">>, <<"customer", "zzz">>, <<"zzz">>, <<"nk", "x">>}

\* utils.py:46: extract_field_value(data, path, raise_exceptions) called on its own
ExtractFieldValue(data, path, raise_exceptions) ==
    /\ pc = "ready"
    /\ pc' = "done"
    /\ call' = [NoCall EXCEPT !.step = "extract_field_value", !.path = path, !.data = data,
                              !.raise_exceptions = raise_exceptions]
    /\ ret' = extract_field_value(db, data, path, raise_exceptions)
    /\ outcome' = ret'.err
    /\ UNCHANGED <<registry, db, orders, seq, frame>>

\* a Sample holding v in one field, every other field NULL
BlankSample ==
    [id |-> IntV(1), count |-> None, ratio |-> None, active |-> None, day |-> None,
     moment |-> None, payload |-> None, name |-> None, notes |-> None, order_id |-> None,
     order |-> None]
SampleWith(name, v) == Instance("Sample", [BlankSample EXCEPT ![name] = v])

\* representative values of each scalar kind, NULL among them
ValuesOf(kind) ==
    CASE kind = "IntegerField" -> {None, IntV(0), IntV(7)}
      [] kind = "FloatField" -> {None, FloatV(15), FloatV(0)}
      [] kind = "BooleanField" -> {None, BoolV(TRUE), BoolV(FALSE)}
      [] kind = "DateField" -> {None, DateV("2020-01-02")}
      [] kind = "DateTimeField" -> {None, DateTimeV("2020-01-02T03:04:05")}
      [] kind = "JSONField" -> {None, DictV("{}"), IntV(1), StrV(<<"1">>)}
      [] kind \in {"CharField", "TextField"} ->
            {None, StrV(<<>>), StrV(<<"abc">>), StrV(<<"7">>), StrV(<<"''">>)}
      [] OTHER -> {}

\* utils.py:46 then utils.py:312: the value a Sample holds in a field is
\* extracted and the extracted value is coerced for the same field
RenderThenCoerce(field, v) ==
    /\ pc = "ready"
    /\ pc' = "done"
    /\ call' = [NoCall EXCEPT !.step = "render_coerce", !.path = field, !.data = v]
    /\ \E got \in {extract_field_value(db, SampleWith(field[1], v), field, FALSE)} :
            ret' = IF got.err # NoErr THEN got
                   ELSE get_to_python_field("Sample", field, got.val)
    /\ outcome' = ret'.err
    /\ UNCHANGED <<registry, db, orders, seq, frame>>

Next ==
    \/ \E table \in Tables, raise_exceptions \in BOOLEAN : ParseStepObjects(table, raise_exceptions)
    \/ \E table \in Tables, limpio \in BOOLEAN : insert_to_db(table, limpio)
    \/ \E table \in UpdateTables, without_signals \in BOOLEAN : update_row_in_db(table, without_signals)
    \/ \E order \in orders, raise_exceptions \in BOOLEAN : RenderThenParse(order, raise_exceptions)
    \/ \E field \in SampleFields, cell \in CoerceCells : Coerce(field, cell)
    \/ \E model \in {"Sample", "Order"}, path \in PathChoices : GetField(model, path)
    \/ \E Model \in {"Order", "Keyed"}, next_value \in NextValues : ResetDbSeq(Model, next_value)
    \/ \E method \in {"GET", "POST"}, text \in BodyTexts, table \in BodyTables :
            HttpRequest(method, text, table)
    \/ \E table \in AssertTables, contiene \in BOOLEAN, filter_fields \in IdentifyingFields :
            DatabaseHasRows(table, contiene, filter_fields)
    \/ \E data \in ExtractData, path \in ExtractPaths, raise_exceptions \in BOOLEAN :
            ExtractFieldValue(data, path, raise_exceptions)
    \/ \E field \in SampleFields \ {F_order} :
            \E v \in ValuesOf(get_field("Sample", field).field.kind) : RenderThenCoerce(field, v)

Spec == Init /\ [][Next]_vars

\* ------------------------------------------------- steps one after the other
\* the tables of the steps of a scenario: one reference column
StepCells == {<<"1">>, <<"2">>, NkCell("C1"), NkCell("C2")}
StepTables ==
    {Table(<<F_customer>>, rows) : rows \in SeqsUpTo({<<c>> : c \in StepCells}, MaxRows)}
CustomerIds == {1, 2}
CustomerKeys == {<<"C1">>, <<"C2">>}

\* utils.py:158: a step resolves its table, whatever ran before it
StepParses(table, raise_exceptions) ==
    /\ pc' = "done"
    /\ call' = [NoCall EXCEPT !.step = "parse_step_objects", !.table = table,
                              !.raise_exceptions = raise_exceptions, !.before = orders]
    /\ frame' = parse_step_objects(db, table, "Order", raise_exceptions)
    /\ outcome' = frame'.err
    /\ UNCHANGED <<registry, db, orders, seq, ret>>

\* db.py:41-72 on Customer: a step in between stores a new Customer
StepInserts(id, nk) ==
    /\ \A e \in db["Customer"] : e.id # id /\ e.nk # nk
    /\ db' = [db EXCEPT !["Customer"] = @ \cup {Entity("Customer", id, nk)}]
    /\ pc' = "ready"
    /\ UNCHANGED <<registry, orders, seq, call, frame, outcome, ret>>

\* db.py:75-103 on Customer: a step in between gives a stored Customer a new key
StepUpdates(e, nk) ==
    /\ e \in db["Customer"]
    /\ \A other \in db["Customer"] : other.nk # nk
    /\ db' = [db EXCEPT !["Customer"] = (@ \ {e}) \cup {Entity("Customer", e.id, nk)}]
    /\ pc' = "ready"
    /\ UNCHANGED <<registry, orders, seq, call, frame, outcome, ret>>

\* db.py:27-30 on Customer: Model.objects.all().delete()
StepClears ==
    /\ db["Customer"] # {}
    /\ db' = [db EXCEPT !["Customer"] = {}]
    /\ pc' = "ready"
    /\ UNCHANGED <<registry, orders, seq, call, frame, outcome, ret>>

NextStep ==
    \/ \E table \in StepTables, raise_exceptions \in BOOLEAN : StepParses(table, raise_exceptions)
    \/ \E id \in CustomerIds, nk \in CustomerKeys : StepInserts(id, nk)
    \/ \E e \in db["Customer"], nk \in CustomerKeys : StepUpdates(e, nk)
    \/ StepClears

SpecSteps == Init /\ [][NextStep]_vars

\* ------------------------------------------------------ a suite and its mocks
\* the generators a run may start
MaxGens == 3
MockNames == Registered \cup {"app.Unknown"}

\* mocks.py:209-232: enciendo el mock llamado "<name>" para este "<scope>"
start_mocking(function_name, scope) ==
    /\ Len(registry.gens) < MaxGens
    /\ pc' = "done"
    /\ call' = [NoCall EXCEPT !.step = "start_mocking", !.text = <<function_name>>,
                              !.path = <<scope>>, !.before = registry]
    /\ \E ran \in {run(registry, scope, function_name)} :
            registry' = ran.reg /\ outcome' = ran.err
    /\ UNCHANGED <<db, orders, seq, frame, ret>>

\* mocks.py:193-194, 328: a step defined with mocker_step, scope left at its default
mock_environment_variables ==
    /\ Len(registry.gens) < MaxGens
    /\ pc' = "done"
    /\ call' = [NoCall EXCEPT !.step = "mocker_step", !.text = <<EnvMock>>,
                              !.path = <<DefaultStepScope>>, !.before = registry]
    /\ \E ran \in {run(registry, DefaultStepScope, EnvMock)} :
            registry' = ran.reg /\ outcome' = ran.err
    /\ UNCHANGED <<db, orders, seq, frame, ret>>

\* mocks.py:235-246: apago el mock llamado "<name>"
stop_mocking(name) ==
    /\ pc' = "done"
    /\ call' = [NoCall EXCEPT !.step = "stop_mocking", !.text = <<name>>, !.before = registry]
    /\ \E stopped \in {stop_mock(registry, name)} :
            registry' = stopped.reg /\ outcome' = stopped.err
    /\ UNCHANGED <<db, orders, seq, frame, ret>>

\* mocks.py:249-254
stop_feature_mocks ==
    /\ pc' = "done"
    /\ call' = [NoCall EXCEPT !.step = "stop", !.path = <<"caracteristica">>,
                              !.before = registry]
    /\ \E stopped \in {stop(registry, "caracteristica")} :
            registry' = stopped.reg /\ outcome' = stopped.err
    /\ UNCHANGED <<db, orders, seq, frame, ret>>

\* mocks.py:257-264
stop_scenario_mocks ==
    /\ pc' = "done"
    /\ call' = [NoCall EXCEPT !.step = "stop", !.path = <<"escenario">>, !.before = registry]
    /\ \E stopped \in {stop(registry, "escenario")} :
            registry' = stopped.reg /\ outcome' = stopped.err
    /\ UNCHANGED <<db, orders, seq, frame, ret>>

InitMocks ==
    /\ Init
    /\ db["Customer"] = {Customer1}
    /\ orders = {}

NextMock ==
    \/ \E name \in MockNames, scope \in {"caracteristica", "escenario"} : start_mocking(name, scope)
    \/ mock_environment_variables
    \/ \E name \in MockNames : stop_mocking(name)
    \/ stop_feature_mocks
    \/ stop_scenario_mocks

SpecMocks == InitMocks /\ [][NextMock]_vars

\* ------------------------------------------------- vocabulary of the claims
Done == pc = "done"
Headings == Range(call.table.headings)
RowNumbers == 1..Len(call.table.rows)
Cell(r, heading) == RowGet(call.table, r, heading)
FieldOf(heading) == get_field("Order", heading).field

IsBracketed(text) == startswith(text, "[") /\ endswith(text, "]")
\* a reference column that can be addressed by identifier
IsReference(heading) == FieldOf(heading).kind = "ForeignKey"
IsGeneric(heading) == FieldOf(heading).kind = "GenericForeignKey"
NkCapable(model) == HasGetByNaturalKey(model) \/ "nk" \in FieldNames(model)
\* a simple reference column whose target supports natural keys
IsNkReference(heading) == IsReference(heading) /\ NkCapable(FieldOf(heading).related_model)
\* the key under which a column resolved by identifier is materialized
LogicalName(heading) == <<FieldOf(heading).name>>

\* the entities an identifier cell / a natural-key cell of a simple column names
EntitiesById(heading, text) ==
    {e \in db[FieldOf(heading).related_model] : <<str(e.id)>> = text}
EntitiesByKey(heading, text) ==
    {e \in db[FieldOf(heading).related_model] : e.nk = YArgs(yaml_load(text).val)}
MissingId(r, heading) ==
    IsReference(heading) /\ isdigit(Cell(r, heading)) /\ EntitiesById(heading, Cell(r, heading)) = {}
MissingKey(r, heading) ==
    IsNkReference(heading) /\ IsBracketed(Cell(r, heading))
        /\ EntitiesByKey(heading, Cell(r, heading)) = {}

\* the type and the instance a two-element generic key names
GenericKey(text) == yaml_load(text).val
IsGenericKey(text) ==
    /\ IsBracketed(text) /\ yaml_load(text).ok
    /\ Len(GenericKey(text).items) = 2
    /\ YIsScalarSeq(GenericKey(text).items[1])
    /\ GenericKey(text).items[2].kind \in {"str", "seq"}
TypesOf(text) == {ct \in db["ContentType"] : ct.nk = YArgs(GenericKey(text).items[1])}
InstanceWords(text) ==
    LET second == GenericKey(text).items[2]
    IN  IF second.kind = "str" THEN <<second.w>> ELSE YArgs(second)
InstancesOf(text) ==
    {e \in UNION {db[m] : m \in DOMAIN db} :
        /\ \E ct \in TypesOf(text) : model_class(ct) = e.m
        /\ e.nk = InstanceWords(text)}
MissingGeneric(r, heading) ==
    IsGeneric(heading) /\ IsGenericKey(Cell(r, heading)) /\ InstancesOf(Cell(r, heading)) = {}

\* every reference cell of the table is empty, a bare number or a bracketed key
CellsWellFormed ==
    \A heading \in Headings, r \in RowNumbers :
        (IsReference(heading) \/ IsGeneric(heading)) =>
            \/ Cell(r, heading) = <<>>
            \/ isdigit(Cell(r, heading))
            \/ IsBracketed(Cell(r, heading)) /\ yaml_load(Cell(r, heading)).ok

\* every bracketed reference cell of the table is valid YAML
CellsYamlValid ==
    \A heading \in Headings, r \in RowNumbers :
        ((IsReference(heading) \/ IsGeneric(heading)) /\ IsBracketed(Cell(r, heading)))
            => yaml_load(Cell(r, heading)).ok

\* ------------------------------------------------------------------ claim C1
\* C1: for every identifier-capable reference column, every bare-numeric cell
\* of ANY row is collected into the column's identifier set, the set is
\* fetched with one query per column, and every row whose cell is the
\* identifier of an existing entity materializes to that entity.
C1_EveryIdentifierFetched ==
    (Done /\ frame.err = NoErr) =>
        \A heading \in Headings : IsReference(heading) =>
            /\ frame.id_queries[heading] = 1
            /\ \A r \in RowNumbers : isdigit(Cell(r, heading)) =>
                  /\ Cell(r, heading) \in DOMAIN frame.obj_by_id_by_field[heading]
                  /\ \A e \in EntitiesById(heading, Cell(r, heading)) :
                        frame.rows[r][LogicalName(heading)] = Obj(e)

\* ------------------------------------------------------------------ claim C2
BracketedCells(heading) == {Cell(r, heading) : r \in RowNumbers} \cap
                           {text \in {Cell(r, heading) : r \in RowNumbers} : IsBracketed(text)}

\* C2: within one pass, a natural-key-capable reference column whose rows use
\* K distinct key texts issues exactly K natural-key lookups (never more than
\* one per distinct text), and rows with the same text get the same reference.
C2_OneLookupPerDistinctKey ==
    Done =>
        \A heading \in Headings : IsNkReference(heading) =>
            /\ frame.nk_lookups[heading] <= Cardinality(BracketedCells(heading))
            /\ frame.err = NoErr =>
                  /\ frame.nk_lookups[heading] = Cardinality(BracketedCells(heading))
                  /\ \A r1, r2 \in RowNumbers :
                        (IsBracketed(Cell(r1, heading)) /\ Cell(r1, heading) = Cell(r2, heading))
                            => frame.rows[r1][heading] = frame.rows[r2][heading]

\* N rows, K < N distinct keys, all resolved
C2_Witness ==
    /\ Done /\ frame.err = NoErr
    /\ \E heading \in Headings :
          /\ IsNkReference(heading)
          /\ \A r \in RowNumbers : IsBracketed(Cell(r, heading))
          /\ Cardinality(BracketedCells(heading)) < Len(call.table.rows)
          /\ frame.nk_lookups[heading] = Cardinality(BracketedCells(heading))

\* ------------------------------------------------------------------ claim C3
\* C3: for every simple natural-key-capable reference field, whether the target
\* has get_by_natural_key or only a field nk, a lookup that finds nothing
\* fails with a not-found error naming the target type and the key in strict
\* mode, and otherwise stores null and raises nothing.
C3_NotFoundByMode ==
    (Done /\ CellsWellFormed) =>
        \A heading \in Headings, r \in RowNumbers : MissingKey(r, heading) =>
            IF call.raise_exceptions
            THEN /\ frame.err.type = "DoesNotExist"
                 /\ frame.err.model = FieldOf(heading).related_model
                 /\ frame.err.named
                 /\ \E q \in RowNumbers :
                       MissingKey(q, heading) /\ frame.err.key = yaml_load(Cell(q, heading)).val
            ELSE /\ frame.err.type # "DoesNotExist"
                 /\ frame.err = NoErr =>
                       frame.obj_by_nk_by_field[heading].map[Cell(r, heading)].val = None

\* ------------------------------------------------------------------ claim C4
\* C4: in non-strict mode a generic-reference cell whose type key or instance
\* key names nothing never raises: it degrades to a Field-Group Replacement
\* whose type-selector, identifier and logical-field values are all null.
C4_GenericDegradesToNull ==
    (Done /\ ~call.raise_exceptions /\ CellsWellFormed) =>
        \A heading \in Headings, r \in RowNumbers : MissingGeneric(r, heading) =>
            /\ frame.err.type # "DoesNotExist"
            /\ frame.err = NoErr =>
                  /\ frame.rows[r][<<FieldOf(heading).ct_field>>] = None
                  /\ frame.rows[r][<<FieldOf(heading).fk_field>>] = None
                  /\ frame.rows[r][heading] = None

\* ------------------------------------------------------------------ claim C5
AnyLookupMisses ==
    \E heading \in Headings, r \in RowNumbers :
        MissingKey(r, heading) \/ MissingGeneric(r, heading)

IsWriteStep == call.step \in {"insert_to_db", "update_row_in_db"}

\* C6: every write step (insert_to_db, update_row_in_db) resolves its table in
\* strict mode: if a natural-key cell names no existing entity the step fails
\* with the not-found error and no row has been created or updated.
C6_WritesAreStrict ==
    (/\ Done /\ IsWriteStep /\ CellsWellFormed
     /\ \E heading \in Headings, r \in RowNumbers : MissingKey(r, heading)) =>
        /\ call.raise_exceptions
        /\ outcome.type = "DoesNotExist"
        /\ orders = call.before

\* ------------------------------------------------------------------ claim C7
\* a non-empty cell that is neither a bare number nor bracket-delimited
IsAmbiguous(text) == text # <<>> /\ ~isdigit(text) /\ ~IsBracketed(text)

\* C7 as stated: for every reference-typed column, whether or not its target
\* supports natural keys, an ambiguous cell makes resolution fail with the
\* "specify a natural key" error and no row is materialized.
C7_AmbiguousAlwaysRejected ==
    Done =>
        \A heading \in Headings, r \in RowNumbers :
            ((IsReference(heading) \/ IsGeneric(heading)) /\ IsAmbiguous(Cell(r, heading))) =>
                frame.err.type = "ValueError" /\ frame.rows = <<>>

\* C7 amended: for every reference column whose target supports natural-key
\* lookup (generic references included), an ambiguous cell makes resolution
\* fail before any row is materialized, with the "specify a natural key"
\* error unless an earlier bracketed cell is not valid YAML.
C7_AmbiguousRejectedForNkColumns ==
    Done =>
        \A heading \in Headings, r \in RowNumbers :
            ((IsNkReference(heading) \/ IsGeneric(heading)) /\ IsAmbiguous(Cell(r, heading))) =>
                /\ frame.err.type \in {"ValueError", "YAMLError"}
                /\ CellsYamlValid => frame.err.type = "ValueError"
                /\ frame.rows = <<>>
                /\ orders = call.before

C7_Witness ==
    /\ Done /\ frame.err.type = "ValueError" /\ frame.rows = <<>>
    /\ \E heading \in Headings, r \in RowNumbers :
          IsNkReference(heading) /\ IsAmbiguous(Cell(r, heading)) /\ r > 1

\* ------------------------------------------------------------------ claim C8
\* C8: when the reference cache holds an entry for (heading, cell) but
\* resolution produced nothing (non-strict not-found), the materialized value
\* of the field is the raw cell text, not null.
C8_FallbackToRawText ==
    (Done /\ ~call.raise_exceptions /\ frame.err = NoErr) =>
        \A heading \in Headings, r \in RowNumbers :
            (/\ IsNkReference(heading)
             /\ Cell(r, heading) \in DOMAIN frame.obj_by_nk_by_field[heading].map
             /\ MissingKey(r, heading)) =>
                frame.rows[r][heading] = StrV(Cell(r, heading))

\* ------------------------------------------------------------------ claim C9
\* a two-element generic key whose type and instance exist and whose target
\* type has a natural-key manager
Resolvable(r, heading) ==
    /\ IsGeneric(heading) /\ IsGenericKey(Cell(r, heading))
    /\ InstancesOf(Cell(r, heading)) # {}
    /\ \A e \in InstancesOf(Cell(r, heading)) : HasGetByNaturalKey(e.m)

C10_GenericRoundTrip ==
    (Done /\ call.step = "render") =>
        \A order \in call.before : \A e \in TargetOf(db, order) :
            HasNaturalKey(e.m) =>
                /\ frame.err = NoErr
                /\ Len(frame.rows) = 1
                /\ frame.rows[1][F_target] = Obj(e)

\* ---------------------------------------------------------- the value coercer
\* a get_to_python_field call on a field of Sample has returned or raised
Coerced == Done /\ call.step = "get_to_python_field"
KindOf(path) == get_field("Sample", path).field.kind
IsTextKind(kind) == kind \in {"CharField", "TextField"}
QuoteCells == {<<"\"\"">>, <<"''">>}

\* C11: for a text field the empty cell coerces to null, the cells "" and ''
\* coerce to the empty string, and no other cell coerces to the empty string.
C11_TextEmptyAndQuotes ==
    Coerced /\ IsTextKind(KindOf(call.path)) =>
        /\ outcome = NoErr
        /\ call.text = <<>> => ret.val = None
        /\ call.text \in QuoteCells => ret.val = StrV(<<>>)
        /\ ret.val = StrV(<<>>) => call.text \in QuoteCells

C11_Witness ==
    /\ Coerced /\ call.path = <<"notes">> /\ call.text = <<"''">>
    /\ ret.val = StrV(<<>>)

\* C12: for every field kind the empty cell coerces to null, without raising.
C12_EmptyCellIsNull ==
    Coerced /\ call.text = <<>> => outcome = NoErr /\ ret.val = None

\* C13: for a foreign-key field a non-empty cell is returned as the raw cell
\* string, unchanged.
C13_ReferenceReturnsRawText ==
    Coerced /\ KindOf(call.path) = "ForeignKey" /\ call.text # <<>> =>
        outcome = NoErr /\ ret.val = StrV(call.text)

\* C13 as amended: for a foreign-key field a non-empty cell is converted by the
\* primary key of the target type: a numeric cell becomes the integer
\* identifier, any other cell becomes null; no entity is looked up.
C13_ReferenceConvertsWithPrimaryKey ==
    Coerced /\ KindOf(call.path) = "ForeignKey" /\ call.text # <<>> =>
        /\ outcome = NoErr
        /\ ret.val = IF isdigit(call.text) THEN IntV(int(call.text[1])) ELSE None
        /\ frame = Frame0

C13_Witness ==
    /\ Coerced /\ call.path = F_order /\ call.text = <<"7">>
    /\ ret.val = IntV(7)

\* the cells the canonical conversion of a kind accepts
Converts(kind, text) == to_python(kind, StrV(text)).ok
ValidJsonCells == {<<w>> : w \in Range(DigitStr) \cup {"null", "true", "false", "{}"}}

\* C14: for a scalar kind other than JSON a cell whose conversion fails coerces
\* to null and nothing is raised; for a JSON field an invalid cell raises the
\* parse error.
C14_ScalarFailureIsNullJsonRaises ==
    Coerced =>
        /\ KindOf(call.path) \notin {"JSONField", "ForeignKey"} =>
              /\ outcome = NoErr
              /\ ~Converts(KindOf(call.path), call.text) => ret.val = None
        /\ KindOf(call.path) = "JSONField" /\ call.text \notin ValidJsonCells =>
              outcome.type = "JSONDecodeError"

C14_Witness ==
    /\ Coerced /\ call.path = <<"count">> /\ call.text = <<"abc">>
    /\ outcome = NoErr /\ ret.val = None

\* ------------------------------------------------------- the round trip
\* the value a Sample held in a field was extracted and coerced again
RoundTripped == Done /\ call.step = "render_coerce"

\* C15: for every scalar kind and every representative value v of it, null
\* among them, coercing the extracted form of v yields v again.
C15_ScalarRoundTrip ==
    RoundTripped => outcome = NoErr /\ ret.val = call.data

\* the text values the coercer reads as something else
TextLiterals == {StrV(<<>>)} \cup {StrV(c) : c \in QuoteCells}

\* C15 as amended: the round trip yields v again for every scalar kind other
\* than JSON and every representative value, null among them, other than the
\* empty string and the two quote literals of a text field; the empty string of
\* a text field comes back as null.
C15_RoundTripButEmptyTextAndJson ==
    RoundTripped =>
        /\ /\ KindOf(call.path) # "JSONField"
           /\ ~(IsTextKind(KindOf(call.path)) /\ call.data \in TextLiterals)
           => outcome = NoErr /\ ret.val = call.data
        /\ IsTextKind(KindOf(call.path)) /\ call.data = StrV(<<>>) =>
              outcome = NoErr /\ ret.val = None

C15_Witness ==
    /\ RoundTripped /\ call.path = <<"count">> /\ call.data = IntV(7)
    /\ outcome = NoErr /\ ret.val = IntV(7)

\* ---------------------------------------------------------- the field resolver
\* every segment of the path names a field of the entity type at its depth, and
\* every segment but the last is a reference
RECURSIVE SegmentsResolve(_, _)
SegmentsResolve(model, path) ==
    \E f \in Range(MetaFields(model)) :
        /\ Head(path) \in {f.name, f.attname}
        /\ \/ Len(path) = 1
           \/ f.related_model # "" /\ SegmentsResolve(f.related_model, Tail(path))

\* C16: get_field resolves a path of any depth through the target type of each
\* reference segment, and fails with the unknown-field error whenever a segment
\* does not exist at its depth or the segment before it is not a reference.
C16_UnresolvedIsUnknownField ==
    Done /\ call.step = "get_field" =>
        IF SegmentsResolve(call.text[1], call.path) THEN outcome = NoErr
        ELSE outcome.type = "FieldDoesNotExist"

\* ------------------------------------------------------- the value extractor
\* C19: without raise_exceptions extract_field_value never raises, for objects
\* and for dict rows: a null relation, a missing attribute and a missing key
\* all give null.
C19_NonStrictNeverRaises ==
    Done /\ call.step = "extract_field_value" /\ ~call.raise_exceptions =>
        outcome = NoErr

\* ------------------------------------------------------- the assertion step
AssertDone == Done /\ call.step = "database_has_rows"
Identifying == call.filter_fields
ExpectedHeadings == Range(call.expected.headings)
ExpectedRowNumbers == 1..Len(call.expected.rows)
ExpectedCell(r, heading) == RowGet(call.expected, r, heading)

\* the identifying cell of a table row names the value the stored Order holds
CellNames(o, field, cell) ==
    CASE field = F_id -> cell = <<str(o.id)>>
      [] field = F_nk -> o.nk = StrV(cell)
      [] field = F_customer ->
            \E e \in db["Customer"] : o.customer_id = IntV(e.id) /\ cell = NkCell(e.nk[1])
      [] OTHER -> FALSE

\* the rows of the store the step reads: all of them, or (contiene) those some
\* table row identifies
ActualRead ==
    IF call.flag
    THEN {o \in call.before :
            \E r \in ExpectedRowNumbers :
                \A i \in 1..Len(Identifying) :
                    /\ Identifying[i] \in ExpectedHeadings
                    /\ CellNames(o, Identifying[i], ExpectedCell(r, Identifying[i]))}
    ELSE call.before

\* the cell mapping and the identifying tuple of a stored row
ActualCell(o, field) == extract_field_value(db, Instance("Order", o), field, FALSE).val
ActualKey(o) == [i \in 1..Len(Identifying) |-> ActualCell(o, Identifying[i])]
ActualKeys == {ActualKey(o) : o \in ActualRead}

\* the identifying tuple of the r-th expected row, and the row that stands for
\* a tuple in the expected mapping: the last one given
ExpectedKey(r) == [i \in 1..Len(Identifying) |-> frame.rows[r][Identifying[i]]]
ExpectedKeys == {ExpectedKey(r) : r \in 1..Len(frame.rows)}
ExpectedRowOf(k) ==
    frame.rows[CHOOSE r \in 1..Len(frame.rows) :
                  /\ ExpectedKey(r) = k
                  /\ \A q \in (r + 1)..Len(frame.rows) : ExpectedKey(q) # k]

\* C17: database_has_rows passes only if the identifying tuples of the actual
\* rows are exactly those of the expected rows and, tuple by tuple, the actual
\* and the expected cell mappings are equal field by field; when the two key
\* sets differ it fails with an assertion that reports both key sets.  (The
\* expected mapping of a tuple is that of the last expected row that has it.)
C17_PassesOnlyOnEqualMappings ==
    AssertDone /\ outcome.type \in {"", "AssertionError"} =>
        /\ ActualKeys # ExpectedKeys =>
              /\ outcome.type = "AssertionError"
              /\ ret.val.report.kind = "keys"
              /\ ret.val.report.actual = ActualKeys
              /\ ret.val.report.expected = ExpectedKeys
        /\ outcome = NoErr =>
              \A o \in ActualRead : \A field \in ExpectedHeadings :
                  ActualCell(o, field) = ExpectedRowOf(ActualKey(o))[field]

C17_Witness ==
    /\ AssertDone /\ Identifying = <<F_id>>
    /\ outcome.type = "AssertionError"
    /\ ret.val.report.kind = "keys"
    /\ ret.val.report.actual = {<<IntV(1)>>, <<IntV(2)>>}
    /\ ret.val.report.expected = {<<IntV(1)>>, <<IntV(3)>>}

\* the query of the step is built: every identifying field is a heading and, in
\* contiene mode, there are rows and the identifying cells can be filtered by
QueryBuilt ==
    /\ Range(Identifying) \subseteq ExpectedHeadings
    /\ call.flag =>
          /\ ExpectedRowNumbers # {}
          /\ \A r \in ExpectedRowNumbers : F_customer \in Range(Identifying) =>
                IsBracketed(ExpectedCell(r, F_customer))

\* C18: when two distinct actual rows have the same identifying tuple the step
\* fails with MultipleObjectsReturned before parse_step_objects is called,
\* whatever the expected table contains.
C18_DuplicateActualFailsFast ==
    /\ AssertDone
    /\ QueryBuilt
    /\ \E o1, o2 \in ActualRead : o1 # o2 /\ ActualKey(o1) = ActualKey(o2)
    => /\ outcome.type = "MultipleObjectsReturned"
       /\ ~ret.val.parsed
       /\ frame = Frame0
       /\ ret.val.expected = EmptyDict

C18_Witness ==
    /\ AssertDone /\ ~call.flag /\ Identifying = <<F_customer>>
    /\ Cardinality(call.before) = 2 /\ Len(call.expected.rows) = 2
    /\ outcome.type = "MultipleObjectsReturned" /\ ~ret.val.parsed

\* ---------------------------------------------------------- the reference cache
\* the references the rows of the step just run hold
MaterializedReferences ==
    UNION {{<<k, frame.rows[r][k]>> : k \in (DOMAIN frame.rows[r]) \cap {F_customer}} :
              r \in 1..Len(frame.rows)}
LookupsOf(heading) ==
    DictGet(frame.nk_lookups, heading, 0) + DictGet(frame.id_queries, heading, 0)

\* C20: over any sequence of steps with Customers created, updated and deleted
\* in between, every reference a step materializes is an entity of the store as
\* it is when that step runs, looked up during that step's own call: nothing an
\* earlier step resolved is returned.
C20_CacheScopedToOneCall ==
    Done /\ call.step = "parse_step_objects" =>
        \A ref \in MaterializedReferences :
            ref[2].t = "obj" =>
                /\ \E e \in db[ref[2].m] : Obj(e) = ref[2]
                /\ LookupsOf(ref[1]) >= 1

C20_Witness ==
    /\ Done /\ call.step = "parse_step_objects"
    /\ db["Customer"] = {Entity("Customer", 1, <<"C2">>)}
    /\ <<F_customer, Obj(Entity("Customer", 1, <<"C2">>))>> \in MaterializedReferences

\* ------------------------------------------------------------ the mock registry
Before == call.before
StopScope == call.path[1]
Stopped == Done /\ call.step = "stop"
Ran == Done /\ call.step \in {"start_mocking", "mocker_step"}
StoppedMock == Done /\ call.step = "stop_mocking"
ActiveEntries(reg) == UNION {Range(reg.active[s]) : s \in Scopes}
ActiveNames(reg) == {e.name : e \in ActiveEntries(reg)}

C22_ScenarioMocksAllStopped ==
    Stopped /\ StopScope = "escenario" /\ outcome = NoErr =>
        /\ registry.active["escenario"] = <<>>
        /\ registry.active[DefaultStepScope] = <<>>

\* C23: a name is active in at most one scope, once; running a mock whose name
\* is active in any scope raises ValueError and leaves the active mocks as
\* they were.
C23_ActiveInOneScope ==
    /\ \A s1, s2 \in Scopes : \A i \in 1..Len(registry.active[s1]) :
          \A j \in 1..Len(registry.active[s2]) :
              registry.active[s1][i].name = registry.active[s2][j].name => s1 = s2 /\ i = j
    /\ Ran /\ call.text[1] \in ActiveNames(Before) =>
          outcome.type = "ValueError" /\ registry.active = Before.active

C23_Witness ==
    /\ Ran /\ call.path = <<"escenario">> /\ call.text = <<"app.Foo">>
    /\ "app.Foo" \in ActiveInScope(Before.active, "caracteristica")
    /\ outcome.type = "ValueError"

\* C24: stop_mock(name) on an active mock leaves its teardown run exactly once
\* and the name active nowhere, every other active mock and generator as it
\* was; on a name that is not active it raises ValueError and changes nothing.
\* No generator's teardown runs more than once.
C24_StopMockOnceAndOnlyThat ==
    /\ \A g \in 1..Len(registry.gens) : registry.gens[g].teardowns <= 1
    /\ StoppedMock /\ call.text[1] \in ActiveNames(Before) =>
          /\ \A e \in ActiveEntries(Before) :
                IF e.name = call.text[1]
                THEN /\ registry.gens[e.gen].teardowns = 1
                     /\ registry.gens[e.gen].state = "finished"
                ELSE registry.gens[e.gen] = Before.gens[e.gen]
          /\ call.text[1] \notin ActiveNames(registry)
          /\ \A s \in Scopes : registry.active[s] = Without(Before.active[s], call.text[1])
    /\ StoppedMock /\ call.text[1] \notin ActiveNames(Before) =>
          outcome.type = "ValueError" /\ registry = Before

\* a mock a failed stop(scope) left recorded as active is turned off by name
C24_Witness ==
    /\ StoppedMock /\ call.text = <<"app.Foo">> /\ outcome = NoErr
    /\ \E e \in ActiveEntries(Before) :
          e.name = "app.Foo" /\ Before.gens[e.gen].state = "finished"
    /\ "app.Foo" \notin ActiveNames(registry)

\* C28: when run raises ValueError, for an unknown or an already active mock,
\* no start code has run: no generator was started.
C28_NoStartBeforeChecks ==
    Ran /\ outcome.type = "ValueError" => registry.gens = Before.gens

C30_EmptyTableYieldsNothing ==
    Done /\ call.step = "parse_step_objects" /\ call.table.rows = <<>> =>
        outcome = NoErr /\ frame.rows = <<>>

\* ------------------------------------------------- exactly and contains modes
\* the step run again on a store that holds only the rows some table row
\* identifies
OnIdentifiedOnly ==
    database_has_rows(db, ActualRead, "Order", call.expected, call.flag, Identifying)

\* C26: in exact mode a stored row whose identifying tuple is in no expected
\* row makes the step fail; in contains mode the stored rows no expected row
\* identifies change nothing (the step ends as it does on a store without
\* them), while an expected row whose tuple no stored row has makes it fail.
C26_ExactWholeTableContainsIdentified ==
    AssertDone =>
        /\ ~call.flag /\ outcome = NoErr =>
              \A o \in call.before : ActualKey(o) \in ExpectedKeys
        /\ call.flag =>
              /\ OnIdentifiedOnly.err = outcome
              /\ OnIdentifiedOnly.actual = ret.val.actual
              /\ OnIdentifiedOnly.report = ret.val.report
        /\ call.flag /\ outcome = NoErr =>
              \A r \in 1..Len(frame.rows) :
                  \E o \in call.before : ActualKey(o) = ExpectedKey(r)

\* contains passes on one identified row while the store holds another
C26_Witness ==
    /\ AssertDone /\ call.flag /\ outcome = NoErr
    /\ Cardinality(call.before) = 2 /\ Cardinality(ActualRead) = 1
    /\ Len(frame.rows) = 1

\* ---------------------------------------------------------------- the sequence
ResetDone == Done /\ call.step = "reset_db_seq"

\* C25: reset_db_seq returns None and leaves the sequence alone for a model
\* without an id field; with next_value None or 0 it sets the sequence to, and
\* returns, max(id) + 1, which is 1 on an empty table; with another next_value
\* the next id assigned is next_value, which it returns.
C25_ResetReturnsNextValue ==
    ResetDone =>
        IF call.text = <<"Keyed">> THEN ret.val = None /\ seq = MaxId(orders) + 1
        ELSE IF call.data \in {None, IntV(0)}
             THEN ret.val = IntV(MaxId(orders) + 1) /\ seq = MaxId(orders) + 1
        ELSE ret.val = call.data /\ seq = call.data.id

\* ------------------------------------------------------------- request bodies
SentTable == call.expected
IsKeyValueTable == Len(SentTable.headings) = 2 /\ {F_key, F_value} = Range(SentTable.headings)

\* the mapping of the key cells to the value cells, a later row replacing an
\* earlier one of the same key
KeyValueMapping ==
    [k \in {RowGet(SentTable, r, F_key) : r \in 1..Len(SentTable.rows)} |->
        RowGet(SentTable, CHOOSE r \in 1..Len(SentTable.rows) :
                             /\ RowGet(SentTable, r, F_key) = k
                             /\ \A q \in (r + 1)..Len(SentTable.rows) :
                                   RowGet(SentTable, q, F_key) # k,
               F_value)]

\* C27: a request step given a table and no text sends, for a table of the two
\* columns key and value, one mapping of each row's key to its value, and for
\* any other table the list of its rows.
C27_TableBodyIsMappingOrRows ==
    Done /\ call.step = "http" /\ call.text = <<>> /\ "absent" \notin DOMAIN SentTable =>
        /\ outcome = NoErr
        /\ IF IsKeyValueTable
           THEN ret.val.t = "dict" /\ ret.val.items = KeyValueMapping
           ELSE ret.val.t = "list" /\ ret.val.of = "rows" /\ ret.val.items = SentTable.rows

====
